---- MODULE Spec2Model ----
(***************************************************************************)
(* A model of the ferret engine core: the door/switch mechanism            *)
(* (doom/door.rs), the thing spawner and BSP point location                *)
(* (doom/map/mod.rs) and the movement sweep (doom/physics.rs).             *)
(*                                                                         *)
(* Heights and coordinates are integers.  Durations are integers counted   *)
(* in half frames, so that a timer need not be a multiple of the tick      *)
(* delta.  Entities of sectors and linedefs are identified with their      *)
(* index in the map (spawn_map_entities creates one entity per index).     *)
(***************************************************************************)
EXTENDS Integers, Sequences, FiniteSets, TLC

VARIABLES
    pc,               \* position of the frame: idle, events, doors, switches, sound, panic
    channel,          \* EventChannel<UseEvent>: every event written so far
    reader,           \* DoorUpdateSystem.use_event_reader: events already read
    batch,            \* number of events the current run's read() returned
    handled,          \* how many of them the event loop has handled
    processed,        \* the use events the event loop has handled, in the order it handled them
    door_active,      \* WriteStorage<DoorActive>: sector entity -> DoorActive
    switch_active,    \* WriteStorage<SwitchActive>: linedef entity -> SwitchActive
    ceiling,          \* MapDynamic.sectors[i].interval.max
    floor,            \* MapDynamic.sectors[i].interval.min
    light,            \* MapDynamic.sectors[i].light_level
    textures,         \* MapDynamic.linedefs[i].sidedefs[0].textures
    sound_queue,      \* Vec<(AssetHandle<Sound>, Entity)>
    blockers,         \* sectors in whose footprint an entity stands in the way of the ceiling
    cursor,           \* doors phase: the join has visited the sector entities below cursor
    done,             \* doors phase: the local Vec `done`
    things,           \* spawn_things: the list of things it was given
    spawn_pc,         \* spawn_things: wait, loop, ok (returned Ok), err (returned Err)
    next_thing,       \* spawn_things: how many things the loop has taken from the list
    world,            \* the entities spawn_things created, each with its components
    quadtree,         \* Quadtree: the (entity, bbox) pairs inserted
    template_storage, \* AssetStorage<EntityTemplate>: doomednum -> template components
    phys_pc,          \* physics: wait (no mover yet), idle, loop (inside `for _ in 0..4`),
                      \* hit (trace has returned), write
    position,         \* Transform.position of the moving entity
    velocity,         \* Velocity.velocity of the moving entity
    new_position,     \* run_now: the local new_position
    new_velocity,     \* run_now: the local new_velocity
    iterations,       \* run_now: iterations of the loop begun in this tick
    intersect,        \* run_now: what move_tracer.trace returned to the iteration under way
    ticks,            \* physics ticks run so far
    overlap_closed,   \* whether AABB2::overlaps counts boxes that only touch
    mover_components, \* which of BoxCollider, Transform and Velocity the moving entity has
    template_pc,      \* add_to_entity: wait, loop, ok (returned Ok), err (returned Err)
    components,       \* EntityTemplate.components: component type -> the template's value
    unvisited,        \* add_to_entity: the components the loop has not come to yet
    storage,          \* the component storages' entries for the entity: type -> value
    storage_before,   \* the entries the entity had when add_to_entity was called
    rejected,         \* the component types whose insert the store answers with an error
    bsp_pc,           \* BSP query: wait, find, found, traverse, traversed
    nodes,            \* Map.nodes of the map the query runs on
    find_point,       \* find_subsector: the argument point
    find_child,       \* find_subsector: the local `child`
    path,             \* find_subsector: the (node index, child taken) pairs of the descent
    query_bbox,       \* traverse_nodes: the argument bbox
    calls,            \* traverse_nodes: the calls still to be made, the next one first
    visits,           \* traverse_nodes: the NodeChilds passed to func, in order
    sweep_pc,         \* one call of MoveTracer::trace: wait, call, done
    sweep_position,   \* the position of the entity whose box is traced
    sweep_step,       \* the argument move_step
    sweep_colliders,  \* the entities with a Transform and a BoxCollider, in join order
    sweep_candidates, \* what trace_linedef, trace_sector and trace_aabb returned, in order
    sweep_result,     \* the Option<Intersect> the call returned
    slab_tested       \* the joined entities for which trace_aabb went on to the slab test

doorVars == <<pc, channel, reader, batch, handled, processed, door_active, switch_active, ceiling,
              floor, light, textures, sound_queue, blockers, cursor, done>>

spawnVars == <<things, spawn_pc, next_thing, world, quadtree, template_storage>>

physVars == <<phys_pc, position, velocity, new_position, new_velocity, iterations, intersect,
              ticks, overlap_closed, mover_components>>

templateVars == <<template_pc, components, unvisited, storage, storage_before, rejected>>

bspVars == <<bsp_pc, nodes, find_point, find_child, path, query_bbox, calls, visits>>

sweepVars == <<sweep_pc, sweep_position, sweep_step, sweep_colliders, sweep_candidates,
               sweep_result, slab_tested>>

\* ------------------------------------------------------------------ bounds

MaxEvents == 2

MaxThings == 3

MaxTicks == 2

\* The largest component of a move step handed to the tracer.
MaxStep == 1

\* The coordinates of query points and query boxes are 0..MaxCoordinate.
MaxCoordinate == 7

\* --------------------------------------------------------------- constants

\* Duration of one tick, doom::FRAME_TIME, in half frames.
FRAME_TIME == 2

\* Clearance between a door's open height and the lowest neighbouring ceiling.
DoorClearance == 4

\* ------------------------------------------------------------ the static map

\* SidedefSlot, as an index of the 1-based sequence of a sidedef's textures
\* (the slot numbered n in the source is the index n + 1).
Top == 1
Bottom == 2
Middle == 3

\* The order in which the switch flip visits the texture slots.
SlotOrder == <<Top, Middle, Bottom>>

\* The sector index standing for a missing sidedef (None in Linedef.sidedefs).
NoSector == 0

\* Map.sectors: interval, light level, tag and neighbours of each sector.
\* 1 and 2 are doors (closed: ceiling on the floor), 2 lying lower and next
\* to 1; 3 and 4 are rooms; 5 is a tagged sector without neighbours.
MapSectors ==
    << [min |-> 0, max |-> 0, light_level |-> 1, sector_tag |-> 1, neighbours |-> <<3, 4>>],
       [min |-> -6, max |-> -6, light_level |-> 1, sector_tag |-> 1, neighbours |-> <<4, 1>>],
       [min |-> 0, max |-> 9, light_level |-> 2, sector_tag |-> 0, neighbours |-> <<1>>],
       [min |-> 1, max |-> 10, light_level |-> 2, sector_tag |-> 0, neighbours |-> <<1, 2>>],
       [min |-> 2, max |-> 6, light_level |-> 1, sector_tag |-> 2, neighbours |-> << >>] >>

Sectors == 1..Len(MapSectors)

\* Map.linedefs with the UseAction component their entity carries.
\*  1: DoorUse, back sector 1          2: DoorUse, back sector 2
\*  3: DoorUse without back sidedef    4: DoorUse, back sector 5 (no neighbours)
\*  5: DoorSwitchUse, tag 1            6: DoorSwitchUse, tag 2 (sector 5 only)
\*  7: no UseAction
MapLinedefs ==
    << [use |-> "DoorUse", front |-> 3, back |-> 1, sector_tag |-> 0,
        speed |-> 1, wait_time |-> 3, switch_time |-> 0,
        textures |-> <<"NoTexture", "NoTexture", "DOOR">>],
       [use |-> "DoorUse", front |-> 4, back |-> 2, sector_tag |-> 0,
        speed |-> 1, wait_time |-> 0, switch_time |-> 0,
        textures |-> <<"NoTexture", "NoTexture", "DOOR">>],
       [use |-> "DoorUse", front |-> 3, back |-> NoSector, sector_tag |-> 0,
        speed |-> 1, wait_time |-> 3, switch_time |-> 0,
        textures |-> <<"NoTexture", "NoTexture", "WALL">>],
       [use |-> "DoorUse", front |-> 4, back |-> 5, sector_tag |-> 0,
        speed |-> 1, wait_time |-> 3, switch_time |-> 0,
        textures |-> <<"NoTexture", "NoTexture", "DOOR">>],
       [use |-> "DoorSwitchUse", front |-> 3, back |-> NoSector, sector_tag |-> 1,
        speed |-> 2, wait_time |-> 2, switch_time |-> 15,
        textures |-> <<"WALL", "SW1OFF", "SW2OFF">>],
       [use |-> "DoorSwitchUse", front |-> 4, back |-> NoSector, sector_tag |-> 2,
        speed |-> 1, wait_time |-> 2, switch_time |-> 3,
        textures |-> <<"NoTexture", "NoTexture", "SW1OFF">>],
       [use |-> "None", front |-> 3, back |-> NoSector, sector_tag |-> 1,
        speed |-> 0, wait_time |-> 0, switch_time |-> 0,
        textures |-> <<"NoTexture", "NoTexture", "SW1OFF">>] >>

Linedefs == 1..Len(MapLinedefs)

\* Map.switches: the "on" graphic of each switch texture.
MapSwitches == [t \in {"SW1OFF", "SW2OFF"} |-> IF t = "SW1OFF" THEN "SW1ON" ELSE "SW2ON"]

\* ---------------------------------------------------------------- helpers

SeqRange(s) == {s[i] : i \in DOMAIN s}

MinOf(S) == CHOOSE x \in S : \A y \in S : x <= y

Restrict(f, S) == [x \in S |-> f[x]]

SectorEntity(i) == <<"sector", i>>

\* ------------------------------------------------------------------- Init

DoorInit ==
    /\ pc = "idle"
    /\ channel = << >>
    /\ reader = 0
    /\ batch = 0
    /\ handled = 0
    /\ processed = << >>
    /\ door_active = << >>
    /\ switch_active = << >>
    /\ ceiling = [i \in Sectors |-> MapSectors[i].max]
    /\ floor = [i \in Sectors |-> MapSectors[i].min]
    /\ light = [i \in Sectors |-> MapSectors[i].light_level]
    /\ textures = [l \in Linedefs |-> MapLinedefs[l].textures]
    /\ sound_queue = << >>
    /\ blockers = {}
    /\ cursor = 1
    /\ done = {}


\* ------------------------------------------ the use events (door.rs 73-240)

\* sector.neighbours.iter().map(|index| map_dynamic.sectors[*index].interval.max)
NeighbourCeilings(s) == {ceiling[n] : n \in SeqRange(MapSectors[s].neighbours)}

\* An open height taken from the static map instead of the current heights.
OpenHeightStatic(s) ==
    MinOf({MapSectors[n].max : n \in SeqRange(MapSectors[s].neighbours)}) - DoorClearance

\* The open height of a new door: lowest neighbouring ceiling minus the clearance.
OpenHeight(s) == MinOf(NeighbourCeilings(s)) - DoorClearance

\* The close height of a new door: the sector's own current floor.
CloseHeight(s) == floor[s]

\* The DoorActive inserted for sector s by a use of linedef l.
NewDoor(s, l) ==
    [ open_sound   |-> "DSDOROPN",
      open_height  |-> OpenHeight(s),
      close_sound  |-> "DSDORCLS",
      close_height |-> CloseHeight(s),
      state        |-> "Closed",
      speed        |-> MapLinedefs[l].speed,
      time_left    |-> MapLinedefs[l].wait_time,
      wait_time    |-> MapLinedefs[l].wait_time ]

\* A re-use that lets a closing door go on closing.
ReuseKeepsClosing(d) ==
    IF d.state = "Closing" THEN d ELSE [d EXCEPT !.state = "Open", !.time_left = 0]

\* A re-use that makes a closing door Opening at once.
ReuseOpensDirectly(d) ==
    IF d.state = "Closing" THEN [d EXCEPT !.state = "Opening"]
    ELSE [d EXCEPT !.state = "Open", !.time_left = 0]

\* A re-use that relabels an opening door Open and lets its timer run.
ReuseKeepsTimer(d) ==
    IF d.state = "Closing" THEN [d EXCEPT !.state = "Closed"] ELSE [d EXCEPT !.state = "Open"]

\* A use of a door that is already active: re-open it or close it early.
ReuseDoor(d) ==
    IF d.state = "Closing" THEN [d EXCEPT !.state = "Closed"]
    ELSE [d EXCEPT !.state = "Open", !.time_left = 0]

\* UseAction::DoorUse on linedef l.
HandleDoorUse(l) ==
    LET s == MapLinedefs[l].back IN
    /\ UNCHANGED <<switch_active, textures, sound_queue>>
    /\ IF s = NoSector
       THEN \* "Used door linedef has no back sector"
            /\ pc' = pc
            /\ door_active' = door_active
       ELSE IF s \in DOMAIN door_active
       THEN IF door_active[s].state = "Closed"
            THEN \* unreachable!()
                 /\ pc' = "panic"
                 /\ door_active' = door_active
            ELSE /\ pc' = pc
                 /\ door_active' = [door_active EXCEPT ![s] = ReuseDoor(@)]
       ELSE IF NeighbourCeilings(s) # {}
       THEN /\ pc' = pc
            /\ door_active' = (s :> NewDoor(s, l)) @@ door_active
       ELSE \* "Used door sector has no neighbouring sectors"
            /\ pc' = pc
            /\ door_active' = door_active

\* A loop over the tagged sectors that does not pass over the active ones.
TaggedSectorsAll(l) ==
    {s \in Sectors : MapSectors[s].sector_tag = MapLinedefs[l].sector_tag}

\* The sectors a switch on linedef l activates: same tag, not active yet.
TaggedSectors(l) ==
    {s \in Sectors : /\ MapSectors[s].sector_tag = MapLinedefs[l].sector_tag
                     /\ s \notin DOMAIN door_active}

\* The local `used` of the switch handler after the loop over the tagged sectors.
SwitchUsed(l) == TaggedSectors(l) # {}

\* The slots of linedef l's front sidedef whose texture has a switch entry,
\* and the first of them in the order of the flip.
SwitchSlots(l) == {i \in DOMAIN SlotOrder : textures[l][SlotOrder[i]] \in DOMAIN MapSwitches}

\* The slot a loop without `break` would leave in the SwitchActive.
LastSwitchSlot(l) == SlotOrder[CHOOSE i \in SwitchSlots(l) : \A j \in SwitchSlots(l) : j <= i]

FirstSwitchSlot(l) == SlotOrder[MinOf(SwitchSlots(l))]

\* A handler that does not look at the SwitchActive component.
SwitchNeverSkipped(l) == FALSE

\* Whether the handler skips the event because the switch is still active.
SwitchSkipped(l) == l \in DOMAIN switch_active

\* UseAction::DoorSwitchUse on linedef l.
HandleDoorSwitchUse(l) ==
    /\ pc' = pc
    /\ IF SwitchSkipped(l)
       THEN UNCHANGED <<door_active, switch_active, textures, sound_queue>>
       ELSE /\ door_active' =
                [s \in {t \in TaggedSectors(l) : NeighbourCeilings(t) # {}}
                    |-> NewDoor(s, l)] @@ door_active
            /\ IF SwitchUsed(l) /\ SwitchSlots(l) # {}
               THEN LET slot == FirstSwitchSlot(l) IN
                    /\ textures' = [textures EXCEPT ![l][slot] = MapSwitches[@]]
                    /\ sound_queue' = Append(sound_queue,
                                        <<"DSSWTCHN", SectorEntity(MapLinedefs[l].front)>>)
                    /\ switch_active' =
                         (l :> [ sound        |-> "DSSWTCHN",
                                 texture      |-> textures[l][slot],
                                 texture_slot |-> slot,
                                 time_left    |-> MapLinedefs[l].switch_time ])
                         @@ switch_active
               ELSE UNCHANGED <<switch_active, textures, sound_queue>>

\* The event the run handles next.
CurrentEvent == channel[reader - batch + handled + 1]

\* One iteration of `for use_event in use_event_channel.read(..)`.
ProcessUseEvent ==
    /\ pc = "events"
    /\ handled < batch
    /\ handled' = handled + 1
    /\ processed' = Append(processed, CurrentEvent)
    /\ LET l == CurrentEvent IN
       CASE MapLinedefs[l].use = "DoorUse"       -> HandleDoorUse(l)
         [] MapLinedefs[l].use = "DoorSwitchUse" -> HandleDoorSwitchUse(l)
         [] OTHER -> UNCHANGED <<pc, door_active, switch_active, textures, sound_queue>>
    /\ UNCHANGED <<channel, reader, batch, ceiling, floor, light, blockers, cursor, done>>

\* The event loop is over: the join over the doors starts.
EventsDone ==
    /\ pc = "events"
    /\ handled = batch
    /\ pc' = "doors"
    /\ batch' = 0
    /\ handled' = 0
    /\ cursor' = 1
    /\ done' = {}
    /\ UNCHANGED <<channel, processed, reader, door_active, switch_active, ceiling,
                   floor, light, textures, sound_queue, blockers>>


\* ------------------------------------------ the door states (door.rs 242-309)

\* door_active.speed * delta.as_secs_f32()
MoveStep(d) == d.speed * FRAME_TIME

\* A sweep that never meets anything.
TraceNoCollision(s) == FALSE

\* SectorTracer::trace(..).collision.is_some(): the downward sweep of the
\* ceiling of sector s meets an entity standing in the sector's footprint.
TraceCollision(s) == s \in blockers

\* The ceiling after an Opening tick, and whether the door is then open.
OpeningPast(s, d) == ceiling[s] + MoveStep(d) > d.open_height

\* An Opening tick that does not clamp.
OpeningCeilingUnclamped(s, d) == ceiling[s] + MoveStep(d)

OpeningCeiling(s, d) ==
    IF OpeningPast(s, d) THEN d.open_height ELSE ceiling[s] + MoveStep(d)

\* A Closing tick that does not move the ceiling.
ClosingCeilingStuck(s, d) == ceiling[s]

\* The ceiling after an unobstructed Closing tick, and whether the door is then done.
ClosingCeiling(s, d) == ceiling[s] - MoveStep(d)

ClosingDone(s, d) == ClosingCeiling(s, d) < d.close_height

\* A subtraction that succeeds as long as any time is left.
TimerRunsToZero(t) == t > 0

\* Duration::checked_sub(*delta) succeeds.
TimerRuns(t) == t >= FRAME_TIME

\* The next sector entity of the join that carries a DoorActive.
NextDoor == MinOf({s \in DOMAIN door_active : s >= cursor})

\* A sector_ref that points at the third sector, whatever entity carries it.
SectorRefThird(s) == 3

\* sector_ref.index of the sector entity s, the index into map_dynamic.sectors.
SectorRefIndex(s) == s

\* One iteration of the join over (entities, sector_ref, door_active).
DoorStep ==
    /\ pc = "doors"
    /\ \E s \in DOMAIN door_active : s >= cursor
    /\ LET s == NextDoor
           d == door_active[s]
       IN
       /\ cursor' = s + 1
       /\ CASE d.state = "Closed" ->
                 /\ door_active' = [door_active EXCEPT ![s].state = "Opening"]
                 /\ sound_queue' = Append(sound_queue, <<d.open_sound, SectorEntity(s)>>)
                 /\ UNCHANGED <<ceiling, done>>
            [] d.state = "Opening" ->
                 /\ ceiling' = [ceiling EXCEPT ![SectorRefIndex(s)] = OpeningCeiling(s, d)]
                 /\ door_active' =
                      IF OpeningPast(s, d)
                      THEN [door_active EXCEPT ![s].state = "Open",
                                               ![s].time_left = d.wait_time]
                      ELSE door_active
                 /\ UNCHANGED <<sound_queue, done>>
            [] d.state = "Open" ->
                 /\ IF TimerRuns(d.time_left)
                    THEN /\ door_active' =
                              [door_active EXCEPT ![s].time_left = @ - FRAME_TIME]
                         /\ UNCHANGED sound_queue
                    ELSE /\ door_active' = [door_active EXCEPT ![s].state = "Closing"]
                         /\ sound_queue' =
                              Append(sound_queue, <<d.close_sound, SectorEntity(s)>>)
                 /\ UNCHANGED <<ceiling, done>>
            [] d.state = "Closing" ->
                 IF TraceCollision(s)
                 THEN \* Hit something on the way down, re-open the door
                      /\ door_active' = [door_active EXCEPT ![s].state = "Closed"]
                      /\ UNCHANGED <<ceiling, sound_queue, done>>
                 ELSE /\ ceiling' = [ceiling EXCEPT ![SectorRefIndex(s)] = ClosingCeiling(s, d)]
                      /\ done' = IF ClosingDone(s, d) THEN done \cup {s} ELSE done
                      /\ UNCHANGED <<door_active, sound_queue>>
    /\ UNCHANGED <<pc, channel, processed, reader, batch, handled, switch_active, floor, light,
                   textures, blockers>>

\* The join is over: `for entity in &done { door_active_component.remove(*entity) }`.
DoorsDone ==
    /\ pc = "doors"
    /\ ~ \E s \in DOMAIN door_active : s >= cursor
    /\ door_active' = Restrict(door_active, DOMAIN door_active \ done)
    /\ done' = {}
    /\ pc' = "switches"
    /\ UNCHANGED <<channel, processed, reader, batch, handled, switch_active, ceiling, floor, light,
                   textures, sound_queue, blockers, cursor>>

\* ---------------------------------------- the switch timers (door.rs 311-340)

\* The switches whose timer runs out in this tick.
SwitchesDone == {l \in DOMAIN switch_active : ~ TimerRuns(switch_active[l].time_left)}

\* The sounds the join over the switches queues, in entity order, from linedef l on.
RECURSIVE SwitchSounds(_)
SwitchSounds(l) ==
    IF l > Len(MapLinedefs) THEN << >>
    ELSE (IF l \in SwitchesDone
          THEN << <<switch_active[l].sound, SectorEntity(MapLinedefs[l].front)>> >>
          ELSE << >>) \o SwitchSounds(l + 1)

\* The join over (entities, linedef_ref, switch_active) and the removal after it.
SwitchTick ==
    /\ pc = "switches"
    /\ textures' =
         [l \in Linedefs |->
            IF l \in SwitchesDone
            THEN [textures[l] EXCEPT ![switch_active[l].texture_slot] =
                                        switch_active[l].texture]
            ELSE textures[l]]
    /\ sound_queue' = sound_queue \o SwitchSounds(1)
    /\ switch_active' =
         [l \in DOMAIN switch_active \ SwitchesDone |->
            [switch_active[l] EXCEPT !.time_left = @ - FRAME_TIME]]
    /\ pc' = "sound"
    /\ UNCHANGED <<channel, processed, reader, batch, handled, door_active, ceiling, floor, light,
                   blockers, cursor, done>>

\* ------------------------------------------------- the frame (main.rs 262-280)

\* A reader that hands out the whole channel again on every read.
UnreadFromStart == Len(channel)

\* use_event_channel.read(&mut self.use_event_reader): the number of events
\* written since this reader's last read; they are handed out in channel order.
Unread == Len(channel) - reader

\* DoorUpdateSystem::run_now starts: read() hands out every unread event.
RunBegin ==
    /\ pc = "idle"
    /\ pc' = "events"
    /\ batch' = Unread
    /\ handled' = 0
    /\ reader' = Len(channel)
    /\ UNCHANGED <<channel, processed, door_active, switch_active, ceiling, floor, light,
                   textures, sound_queue, blockers, cursor, done>>

\* The sound system drains the queue after the frame's systems have run.
SoundSystemRun ==
    /\ pc = "sound"
    /\ sound_queue' = << >>
    /\ pc' = "idle"
    /\ UNCHANGED <<channel, processed, reader, batch, handled, door_active, switch_active, ceiling,
                   floor, light, textures, blockers, cursor, done>>

\* The player use system writes a use event for linedef entity l.
WriteUse(l) ==
    /\ pc = "idle"
    /\ Len(channel) < MaxEvents
    /\ channel' = Append(channel, l)
    /\ UNCHANGED <<pc, processed, reader, batch, handled, door_active, switch_active, ceiling, floor,
                   light, textures, sound_queue, blockers, cursor, done>>

\* The sectors in whose footprint an entity can stand.
DoorSectors == {1}

\* An entity walks into or out of the footprint of door sector s.
MoveBlocker(s) ==
    /\ pc = "idle"
    /\ blockers' = IF s \in blockers THEN blockers \ {s} ELSE blockers \cup {s}
    /\ UNCHANGED <<pc, channel, processed, reader, batch, handled, door_active, switch_active, ceiling,
                   floor, light, textures, sound_queue, cursor, done>>

\* One step of the frame's door system and the sound system after it.
Frame == RunBegin \/ ProcessUseEvent \/ EventsDone \/ DoorStep \/ DoorsDone
           \/ SwitchTick \/ SoundSystemRun

\* ----------------------------------------- the BSP tree (map/mod.rs 143-202)

\* Map.nodes, node i of the code being MapNodes[i + 1]; child_indices[1] is
\* the code's child_indices[0], the child on the positive side of the plane.
NodeChild(kind, index) == [kind |-> kind, index |-> index]

MapNodes ==
    << [normal |-> <<1, 0>>, distance |-> 4,
        child_indices |-> <<NodeChild("Node", 1), NodeChild("Subsector", 0)>>],
       [normal |-> <<0, 1>>, distance |-> 2,
        child_indices |-> <<NodeChild("Node", 2), NodeChild("Subsector", 1)>>],
       [normal |-> <<1, 0>>, distance |-> 6,
        child_indices |-> <<NodeChild("Subsector", 3), NodeChild("Subsector", 2)>>] >>

\* Map.subsectors, subsector i of the code being MapSubsectors[i + 1].
MapSubsectors ==
    << [sector_index |-> 3], [sector_index |-> 4], [sector_index |-> 1],
       [sector_index |-> 5] >>

Dot2(a, b) == a[1] * b[1] + a[2] * b[2]

\* A descent that sends a point on the plane to the positive side.
SideChildStrict(node, at) ==
    IF Dot2(at, node.normal) - node.distance < 0
    THEN node.child_indices[2]
    ELSE node.child_indices[1]

\* The child find_subsector follows at a node: child_indices[(dot <= 0.0) as usize].
SideChild(node, point) ==
    IF Dot2(point, node.normal) - node.distance <= 0
    THEN node.child_indices[2]
    ELSE node.child_indices[1]

RECURSIVE Descend(_, _)
Descend(child, point) ==
    IF child.kind = "Subsector"
    THEN child.index
    ELSE Descend(SideChild(MapNodes[child.index + 1], point), point)

\* Map::find_subsector: the index of the subsector the descent from node 0 ends in.
FindSubsector(point) == Descend(NodeChild("Node", 0), point)

\* --------------------------------------- spawn_things (map/mod.rs 231-287)

\* MobjTypes.doomednums with the templates the handles stand for: 1 a monster,
\* 2 a hanging body (collider and ceiling marker), 3 a hanging decoration
\* without collider, 4 a decoration without any of them.
MobjTemplates ==
    (1 :> [BoxCollider |-> [height |-> 5, radius |-> 2], Velocity |-> <<0, 0, 0>>])
    @@ (2 :> [BoxCollider |-> [height |-> 3, radius |-> 1], SpawnOnCeiling |-> [offset |-> 3]])
    @@ (3 :> [SpawnOnCeiling |-> [offset |-> 2], SpriteRender |-> "GOR1"])
    @@ (4 :> [SpriteRender |-> "COLU"])

Points == {<<3, 3>>, <<4, 2>>, <<5, 2>>, <<6, 3>>, <<7, 3>>}

\* The things of a map; no template is registered for doomednum 9.
Things == [position : Points, angle : {0}, doomednum : DOMAIN MobjTemplates \cup {9}]

\* The lists spawn_things may be given.
ThingLists == UNION {[1..n -> Things] : n \in 0..MaxThings}

SpawnInit ==
    /\ things = << >>
    /\ spawn_pc = "wait"
    /\ next_thing = 0
    /\ world = << >>
    /\ quadtree = {}
    /\ template_storage = MobjTemplates

\* load_map calls spawn_things with the things of the map.
SpawnBegin ==
    /\ spawn_pc = "wait"
    /\ things' \in ThingLists
    /\ spawn_pc' = "loop"
    /\ UNCHANGED <<next_thing, world, quadtree, template_storage>>

\* The components of a function-valued record without the one named c.
Without(comps, c) == [k \in DOMAIN comps \ {c} |-> comps[k]]

\* A placement that ignores the marker and always takes the floor.
SpawnHeightFloor(thing, comps) ==
    MapSectors[MapSubsectors[FindSubsector(thing.position) + 1].sector_index].min

\* The z of a spawned entity: below the ceiling when the entity carries the
\* SpawnOnCeiling marker, on the floor otherwise (static Map.sectors interval).
SpawnHeight(thing, comps) ==
    LET sector == MapSectors[MapSubsectors[FindSubsector(thing.position) + 1].sector_index] IN
    IF "SpawnOnCeiling" \in DOMAIN comps
    THEN sector.max - comps.SpawnOnCeiling.offset
    ELSE sector.min

\* The components of the entity after the marker was taken out (entry.remove())
\* and the Transform inserted.
SpawnedEntity(thing, comps) ==
    ("Transform" :> [position |-> <<thing.position[1], thing.position[2],
                                    SpawnHeight(thing, comps)>>,
                     rotation |-> <<0, 0, thing.angle>>])
    @@ Without(comps, "SpawnOnCeiling")

\* AABB2::from(&AABB3::from_radius_height(radius, height).offset(position))
ColliderBox(collider, at) ==
    [xmin |-> at[1] - collider.radius, xmax |-> at[1] + collider.radius,
     ymin |-> at[2] - collider.radius, ymax |-> at[2] + collider.radius]

\* A spawner that skips the thing and goes on with the next one.
SkipMissingTemplate == "loop"

\* Where spawn_things goes when the doomednum has no template: `?` returns the error.
OnMissingTemplate == "err"

\* One iteration of `for (_i, thing) in things.into_iter().enumerate()`.
SpawnThing ==
    /\ spawn_pc = "loop"
    /\ next_thing < Len(things)
    /\ next_thing' = next_thing + 1
    /\ LET thing == things[next_thing + 1] IN
       IF thing.doomednum \notin DOMAIN template_storage
       THEN /\ spawn_pc' = OnMissingTemplate
            /\ UNCHANGED <<world, quadtree>>
       ELSE LET entity == SpawnedEntity(thing, template_storage[thing.doomednum])
                id == Len(world) + 1
            IN
            /\ spawn_pc' = spawn_pc
            /\ world' = Append(world, entity)
            /\ quadtree' =
                 IF "BoxCollider" \in DOMAIN entity
                 THEN quadtree \cup
                        {<<id, ColliderBox(entity.BoxCollider, entity.Transform.position)>>}
                 ELSE quadtree
    /\ UNCHANGED <<things, template_storage>>

\* The list is exhausted: Ok(()).
SpawnEnd ==
    /\ spawn_pc = "loop"
    /\ next_thing = Len(things)
    /\ spawn_pc' = "ok"
    /\ UNCHANGED <<things, next_thing, world, quadtree, template_storage>>

\* -------------------------------------------------- exact decimal numbers

\* A coordinate, velocity or fraction of the sweep is kept exactly, as the
\* sequence <<c0, c1, ..., cm>> standing for c0 + c1/100 + ... + cm/100^m
\* with c0 an integer, the other digits in 0..99 and the last one not 0:
\* the factor 1.01 of the collision response is <<1, 1>>.
Base == 100

Num(n) == <<n>>

Zero == <<0>>

\* The element of a one-element set: a value that is used several times is
\* computed once, as the member of such a set.
The(S) == CHOOSE r \in S : TRUE

Digit(x, i) == IF i <= Len(x) THEN x[i] ELSE 0

\* The digits c[1..i] with the carry added to c[i] and carried upwards.
RECURSIVE Carried(_, _, _)
Carried(c, i, carry) ==
    IF i = 1
    THEN <<c[1] + carry>>
    ELSE The({Carried(c, i - 1, t \div Base) \o <<t % Base>> : t \in {c[i] + carry}})

RECURSIVE Trimmed(_)
Trimmed(c) ==
    IF Len(c) > 1 /\ c[Len(c)] = 0
    THEN The({Trimmed(t) : t \in {SubSeq(c, 1, Len(c) - 1)}})
    ELSE c

\* The number with the coefficients c, in its unique form.
Canonical(c) == The({Trimmed(t) : t \in {Carried(c, Len(c), 0)}})

Longer(a, b) == IF Len(a) >= Len(b) THEN Len(a) ELSE Len(b)

\* Whole numbers are added, negated and multiplied as such.
Add(x, y) ==
    The({IF Len(a) = 1 /\ Len(b) = 1
         THEN <<a[1] + b[1]>>
         ELSE Canonical([i \in 1..Longer(a, b) |-> Digit(a, i) + Digit(b, i)]) :
           a \in {x}, b \in {y}})

Neg(x) ==
    The({IF Len(a) = 1 THEN <<-a[1]>> ELSE Canonical([i \in 1..Len(a) |-> -a[i]]) :
           a \in {x}})

Sub(x, y) == Add(x, Neg(y))

\* The coefficient of 100^-(k-1) in the product: the sum of a[i] * b[k+1-i] from i on.
RECURSIVE Coefficient(_, _, _, _)
Coefficient(a, b, k, i) ==
    IF i > k \/ i > Len(a)
    THEN 0
    ELSE Digit(b, k + 1 - i) * a[i] + Coefficient(a, b, k, i + 1)

Mul(x, y) ==
    The({IF Len(a) = 1 /\ Len(b) = 1
         THEN <<a[1] * b[1]>>
         ELSE Canonical([k \in 1..(Len(a) + Len(b) - 1) |-> Coefficient(a, b, k, 1)]) :
           a \in {x}, b \in {y}})

\* -1, 0 or 1.
Sign(x) == The({IF a[1] < 0 THEN -1 ELSE IF a = Zero THEN 0 ELSE 1 : a \in {x}})

\* The sign of x - y.
Cmp(x, y) == Sign(Sub(x, y))

\* The sign of x + y + z.
SumSign(x, y, z) == Sign(Add(Add(x, y), z))

\* A quotient num / den with den > 0, as the traces compare fractions.
Quot(num, den) ==
    IF Sign(den) < 0 THEN [num |-> Neg(num), den |-> Neg(den)] ELSE [num |-> num, den |-> den]

\* The sign of f - g for two quotients.
CmpQuot(f, g) == Cmp(Mul(f.num, g.den), Mul(g.num, f.den))

One == Quot(Num(1), Num(1))

QuotZero == Quot(Zero, Num(1))

\* ------------------------------------------ the geometry the sweep reads

SolidMaskAll == {"NON_MONSTER", "MONSTER"}

\* A test that lets every mask match.
MaskIntersectsAlways(a, b) == TRUE

\* SolidMask::intersects
MaskIntersects(a, b) == a \cap b # {}

\* The linedefs of the map that bound the first room, x from 0 to 8 and y
\* from 0 to 6: four one-sided walls; the two-sided face of door 1, standing
\* from (4,0) to (4,2); a two-sided line to the second room across x = 6.
\* The normal of a linedef points to its right.
WallLinedefs ==
    << [point |-> <<8, 0>>, dir |-> <<-8, 0>>, normal |-> <<0, 1>>,
        sidedefs |-> <<3, NoSector>>, solid_mask |-> SolidMaskAll],
       [point |-> <<0, 0>>, dir |-> <<0, 6>>, normal |-> <<1, 0>>,
        sidedefs |-> <<3, NoSector>>, solid_mask |-> SolidMaskAll],
       [point |-> <<0, 6>>, dir |-> <<8, 0>>, normal |-> <<0, -1>>,
        sidedefs |-> <<3, NoSector>>, solid_mask |-> SolidMaskAll],
       [point |-> <<8, 6>>, dir |-> <<0, -6>>, normal |-> <<-1, 0>>,
        sidedefs |-> <<3, NoSector>>, solid_mask |-> SolidMaskAll],
       [point |-> <<4, 0>>, dir |-> <<0, 2>>, normal |-> <<1, 0>>,
        sidedefs |-> <<3, 1>>, solid_mask |-> {}],
       [point |-> <<6, 0>>, dir |-> <<0, 6>>, normal |-> <<1, 0>>,
        sidedefs |-> <<3, 4>>, solid_mask |-> {}] >>

\* SolidMask::NON_MONSTER
NON_MONSTER == {"NON_MONSTER"}

\* The BoxCollider of the moving entity.
MoverCollider == [radius |-> 1, height |-> 5, solid_mask |-> NON_MONSTER]

\* The vector of length n (2 or 3) with the components F(i).
Vec(F(_), n) == IF n = 2 THEN <<F(1), F(2)>> ELSE <<F(1), F(2), F(3)>>

NumVec(v) == Vec(LAMBDA i : Num(v[i]), Len(v))

VecAdd(a, b) == Vec(LAMBDA i : Add(a[i], b[i]), Len(a))

VecSub(a, b) == Vec(LAMBDA i : Sub(a[i], b[i]), Len(a))

VecNeg(a) == Vec(LAMBDA i : Neg(a[i]), Len(a))

VecScale(a, x) == Vec(LAMBDA i : Mul(a[i], x), Len(a))

ZeroVec == <<Zero, Zero, Zero>>

MinNum(x, y) == IF Cmp(x, y) <= 0 THEN x ELSE y

MaxNum(x, y) == IF Cmp(x, y) >= 0 THEN x ELSE y

\* AABB3::from_radius_height
FromRadiusHeight(radius, height) ==
    << [min |-> Num(-radius), max |-> Num(radius)],
       [min |-> Num(-radius), max |-> Num(radius)],
       [min |-> Zero, max |-> Num(height)] >>

\* AABB::offset
BoxOffset(bbox, v) ==
    Vec(LAMBDA i : [min |-> Add(bbox[i].min, v[i]), max |-> Add(bbox[i].max, v[i])],
        Len(bbox))

\* AABB2::from(&AABB3)
Box2(bbox) == <<bbox[1], bbox[2]>>

\* AABB::union
BoxUnion(a, b) ==
    Vec(LAMBDA i : [min |-> MinNum(a[i].min, b[i].min), max |-> MaxNum(a[i].max, b[i].max)],
        Len(a))

\* Interval::overlaps; whether intervals that only touch overlap is left open.
IntervalOverlaps(a, b) ==
    IF overlap_closed
    THEN Cmp(a.min, b.max) <= 0 /\ Cmp(a.max, b.min) >= 0
    ELSE Cmp(a.min, b.max) < 0 /\ Cmp(a.max, b.min) > 0

\* AABB2::overlaps
BoxOverlaps(a, b) == \A i \in DOMAIN a : IntervalOverlaps(a[i], b[i])

\* Linedef.bbox: the box around the two vertices.
LinedefBBox(linedef) ==
    LET a == NumVec(linedef.point)
        b == VecAdd(NumVec(linedef.point), NumVec(linedef.dir))
    IN Vec(LAMBDA i : [min |-> MinNum(a[i], b[i]), max |-> MaxNum(a[i], b[i])], 2)

Cross(a, b) == Sub(Mul(a[1], b[2]), Mul(a[2], b[1]))

\* Line2::intersect: the parameters of the crossing point along the line
\* (p, d) and along the line (q, e); none for parallel lines.
LineIntersect(p, d, q, e) ==
    LET c == Cross(d, e) IN
    IF c = Zero
    THEN [some |-> FALSE, fraction |-> QuotZero, other |-> QuotZero]
    ELSE [some |-> TRUE,
          fraction |-> Quot(Cross(VecSub(q, p), e), c),
          other |-> Quot(Cross(VecSub(q, p), d), c)]

\* Interval::intersection of the current intervals of two sectors.
SectorOpening(front, back) ==
    [min |-> MaxNum(Num(floor[front]), Num(floor[back])),
     max |-> MinNum(Num(ceiling[front]), Num(ceiling[back]))]

\* A test that finds no box inside any interval.
MovedInsideNever(zs, dz, f, interval) == FALSE

\* Interval::is_inside for the interval zs moved by dz * f.
MovedInside(zs, dz, f, interval) ==
    /\ Cmp(Mul(Sub(interval.min, zs.min), f.den), Mul(dz, f.num)) <= 0
    /\ Cmp(Mul(Sub(interval.max, zs.max), f.den), Mul(dz, f.num)) >= 0

\* ------------------------------------- MoveTracer (physics.rs 127-274, 389-396)

BBOX_NORMALS == << <<1, 0, 0>>, <<0, 1, 0>>, <<-1, 0, 0>>, <<0, -1, 0>> >>

\* Option<Intersect>: None.
NoHit == [some |-> FALSE, fraction |-> One, normal |-> <<0, 0, 0>>, solid_mask |-> {}]

\* entity_bbox_corners
Corners(bbox2) ==
    << <<bbox2[1].min, bbox2[2].min>>, <<bbox2[1].min, bbox2[2].max>>,
       <<bbox2[1].max, bbox2[2].max>>, <<bbox2[1].max, bbox2[2].min>> >>

\* x >= 0.0 && x <= 1.0
InUnit(f) == CmpQuot(f, QuotZero) >= 0 /\ CmpQuot(f, One) <= 0

\* A test that lets a contact at the very start of the move pass.
FractionStrictlyAhead(f) == CmpQuot(f, QuotZero) > 0

\* fraction >= 0.0
FractionAhead(f) == CmpQuot(f, QuotZero) >= 0

\* move_step2.dot(&linedef.normal) > 0.0
OnLeftSide(move2, linedef) ==
    SumSign(Mul(move2[1], Num(linedef.normal[1])),
            Mul(move2[2], Num(linedef.normal[2])), Zero) > 0

\* "Intersect bbox corner with linedef", without the comparison to the best so far.
CornerHit(corner, move2, linedef) ==
    LET x == LineIntersect(corner, move2, NumVec(linedef.point), NumVec(linedef.dir)) IN
    [some |-> x.some /\ FractionAhead(x.fraction) /\ InUnit(x.other),
     fraction |-> x.fraction,
     normal |-> IF OnLeftSide(move2, linedef)
                THEN <<-linedef.normal[1], -linedef.normal[2], 0>>
                ELSE <<linedef.normal[1], linedef.normal[2], 0>>,
     solid_mask |-> SolidMaskAll]

\* "Intersect linedef vertices with bbox edge", edge i running from corner i
\* to the next corner.
VertexHit(vertex, move2, corners, i) ==
    LET x == LineIntersect(vertex, VecNeg(move2), corners[i],
                           VecSub(corners[(i % 4) + 1], corners[i]))
    IN
    [some |-> x.some /\ FractionAhead(x.fraction) /\ InUnit(x.other),
     fraction |-> x.fraction,
     normal |-> <<-BBOX_NORMALS[i][1], -BBOX_NORMALS[i][2], -BBOX_NORMALS[i][3]>>,
     solid_mask |-> SolidMaskAll]

\* The tests of `for i in 0..4` in the order the loop makes them.
LinedefCandidates(bbox2, move2, linedef) ==
    LET corners == Corners(bbox2)
        vertices == <<NumVec(linedef.point),
                      VecAdd(NumVec(linedef.point), NumVec(linedef.dir))>>
        tests(i) == << CornerHit(corners[i], move2, linedef),
                       VertexHit(vertices[1], move2, corners, i),
                       VertexHit(vertices[2], move2, corners, i) >>
    IN tests(1) \o tests(2) \o tests(3) \o tests(4)

\* ret after the candidates from the j-th on were offered in order: a
\* candidate replaces ret when its fraction is below ret's, or below 1.0.
RECURSIVE Nearest(_, _, _)
Nearest(cands, j, ret) ==
    IF j > Len(cands)
    THEN ret
    ELSE The({Nearest(cands, j + 1, next) :
                next \in {IF cands[j].some /\ CmpQuot(cands[j].fraction, ret.fraction) < 0
                          THEN cands[j]
                          ELSE ret}})

\* MoveTracer::trace_linedef
TraceLinedef(entity_bbox, move_step, linedef) ==
    LET move2 == <<move_step[1], move_step[2]>>
        bbox2 == Box2(entity_bbox)
        move_bbox2 == BoxUnion(bbox2, BoxOffset(bbox2, move2))
    IN
    IF ~BoxOverlaps(move_bbox2, LinedefBBox(linedef))
    THEN NoHit
    ELSE The({IF /\ ret.some
                 /\ linedef.sidedefs[2] # NoSector
                 /\ MovedInside(entity_bbox[3], move_step[3], ret.fraction,
                                SectorOpening(linedef.sidedefs[1], linedef.sidedefs[2]))
              THEN [ret EXCEPT !.solid_mask = linedef.solid_mask]
              ELSE ret :
                ret \in {The({Nearest(cands, 1, NoHit) :
                                cands \in {LinedefCandidates(bbox2, move2, linedef)}})}})

\* What trace_linedef returns for the linedefs from the i-th on, a hit
\* counting only when the masks intersect.
RECURSIVE LinedefHits(_, _, _, _)
LinedefHits(entity_bbox, move_step, solid_mask, i) ==
    IF i > Len(WallLinedefs)
    THEN << >>
    ELSE << The({[hit EXCEPT !.some = hit.some /\ MaskIntersects(solid_mask, hit.solid_mask)] :
                   hit \in {TraceLinedef(entity_bbox, move_step, WallLinedefs[i])}}) >>
         \o LinedefHits(entity_bbox, move_step, solid_mask, i + 1)

\* ------------------------------------------------ f32 quotients (physics.rs)

\* The quotient a / b of two f32 values: for b = 0.0 it is an infinity with
\* the sign of a, and NaN for a = 0.0.  An infinity is kept as num = +-1 over
\* den = 0, NaN as 0 over 0.  The zero of the model carries no sign.
Divide(a, b) == IF b = Zero THEN [num |-> Num(Sign(a)), den |-> Zero] ELSE Quot(a, b)

IsNaN(f) == f.den = Zero /\ f.num = Zero

\* f < g on f32: false when either is NaN.
QuotLess(f, g) ==
    /\ ~IsNaN(f)
    /\ ~IsNaN(g)
    /\ IF f.den = Zero /\ g.den = Zero
       THEN Sign(f.num) < Sign(g.num)
       ELSE CmpQuot(f, g) < 0

\* f == g on f32: false when either is NaN.
QuotEq(f, g) ==
    /\ ~IsNaN(f)
    /\ ~IsNaN(g)
    /\ IF f.den = Zero /\ g.den = Zero
       THEN Sign(f.num) = Sign(g.num)
       ELSE CmpQuot(f, g) = 0

\* f32::max and f32::min: a NaN operand is ignored.
FloatMax(f, g) == IF IsNaN(f) THEN g ELSE IF IsNaN(g) THEN f ELSE IF QuotLess(f, g) THEN g ELSE f

FloatMin(f, g) == IF IsNaN(f) THEN g ELSE IF IsNaN(g) THEN f ELSE IF QuotLess(g, f) THEN g ELSE f

\* Interval::normalize: the bounds in ascending order.
Normalized(interval) ==
    IF QuotLess(interval.max, interval.min)
    THEN [min |-> interval.max, max |-> interval.min]
    ELSE interval

\* Interval::intersection
Intersection(a, b) == [min |-> FloatMax(a.min, b.min), max |-> FloatMin(a.max, b.max)]

\* Interval::is_empty
IsEmpty(interval) == QuotLess(interval.max, interval.min)

\* ------------------------------------- MoveTracer::trace_sector (276-328)

\* Subsector.bbox of subsector i of the code, SubsectorBoxes[i + 1]: the
\* regions the planes of MapNodes cut out of the map, x from 0 to 8 and y
\* from 0 to 6.
SubsectorBoxes ==
    << <<[min |-> 0, max |-> 4], [min |-> 0, max |-> 6]>>,
       <<[min |-> 4, max |-> 8], [min |-> 0, max |-> 2]>>,
       <<[min |-> 4, max |-> 6], [min |-> 2, max |-> 6]>>,
       <<[min |-> 6, max |-> 8], [min |-> 2, max |-> 6]>> >>

\* Subsector.segs of a subsector that fills its bbox: the outward normal of
\* each side and the interval of the subsector along that normal.
SubsectorSegs(box) ==
    << [normal |-> <<1, 0>>, interval |-> [min |-> box[1].min, max |-> box[1].max]],
       [normal |-> <<0, 1>>, interval |-> [min |-> box[2].min, max |-> box[2].max]],
       [normal |-> <<-1, 0>>, interval |-> [min |-> -box[1].max, max |-> -box[1].min]],
       [normal |-> <<0, -1>>, interval |-> [min |-> -box[2].max, max |-> -box[2].min]] >>

\* Sector.subsectors, as indices into SubsectorBoxes.
SectorSubsectors(sector_index) ==
    {i \in DOMAIN MapSubsectors : MapSubsectors[i].sector_index = sector_index}

\* The time of impact with the ceiling (moving up) or the floor (moving down).
PlaneFraction(entity_bbox, move_step, sector_index) ==
    IF Sign(move_step[3]) > 0
    THEN Divide(Sub(Num(ceiling[sector_index]), entity_bbox[3].max), move_step[3])
    ELSE Divide(Sub(Num(floor[sector_index]), entity_bbox[3].min), move_step[3])

\* intersect.fraction < 0.0 || intersect.fraction > 1.0
FractionBeyond(f) == QuotLess(f, QuotZero) \/ QuotLess(One, f)

\* AABB2::from(&entity_bbox.offset(move_step * fraction)), every coordinate
\* multiplied by the denominator of the fraction.
ImpactBox2(entity_bbox, move_step, f) ==
    Vec(LAMBDA i : [min |-> Add(Mul(entity_bbox[i].min, f.den), Mul(move_step[i], f.num)),
                    max |-> Add(Mul(entity_bbox[i].max, f.den), Mul(move_step[i], f.num))],
        2)

\* An interval of the map multiplied by the denominator of the fraction.
ScaledInterval(interval, f) ==
    [min |-> Mul(Num(interval.min), f.den), max |-> Mul(Num(interval.max), f.den)]

\* Interval::from_iterator over seg.normal.dot(c) for the four corners c.
Projection(corners, normal) ==
    LET dots == Vec(LAMBDA i : Add(Mul(corners[i][1], Num(normal[1])),
                                   Mul(corners[i][2], Num(normal[2]))), 3)
        last == Add(Mul(corners[4][1], Num(normal[1])), Mul(corners[4][2], Num(normal[2])))
    IN [min |-> MinNum(MinNum(dots[1], dots[2]), MinNum(dots[3], last)),
        max |-> MaxNum(MaxNum(dots[1], dots[2]), MaxNum(dots[3], last))]

\* "Separating axis theorem": the box at the time of impact against one subsector.
SubsectorOverlaps(bbox2, f, i) ==
    /\ BoxOverlaps(bbox2, <<ScaledInterval(SubsectorBoxes[i][1], f),
                            ScaledInterval(SubsectorBoxes[i][2], f)>>)
    /\ \A k \in 1..4 :
         \E seg \in {SubsectorSegs(SubsectorBoxes[i])[k]} :
           IntervalOverlaps(Projection(Corners(bbox2), seg.normal),
                            ScaledInterval(seg.interval, f))

\* MoveTracer::trace_sector
TraceSector(entity_bbox, move_step, sector_index) ==
    The({IF FractionBeyond(f)
         THEN NoHit
         ELSE IF \E i \in SectorSubsectors(sector_index) :
                   SubsectorOverlaps(ImpactBox2(entity_bbox, move_step, f), f, i)
              THEN [some |-> TRUE, fraction |-> f,
                    normal |-> IF Sign(move_step[3]) > 0 THEN <<0, 0, -1>> ELSE <<0, 0, 1>>,
                    solid_mask |-> SolidMaskAll]
              ELSE NoHit :
           f \in {PlaneFraction(entity_bbox, move_step, sector_index)}})

\* What trace_sector returns for the sectors from the i-th on, a hit counting
\* only when the masks intersect.
RECURSIVE SectorHits(_, _, _, _)
SectorHits(entity_bbox, move_step, solid_mask, i) ==
    IF i > Len(MapSectors)
    THEN << >>
    ELSE << The({[hit EXCEPT !.some = hit.some /\ MaskIntersects(solid_mask, hit.solid_mask)] :
                   hit \in {TraceSector(entity_bbox, move_step, i)}}) >>
         \o SectorHits(entity_bbox, move_step, solid_mask, i + 1)

\* --------------------------------------- MoveTracer::trace_aabb (330-386)

\* The two quotients of each axis, as Interval::new is given them.
SlabQuotients(entity_bbox, move_step, other_bbox) ==
    Vec(LAMBDA i : [min |-> Divide(Sub(other_bbox[i].min, entity_bbox[i].max), move_step[i]),
                    max |-> Divide(Sub(other_bbox[i].max, entity_bbox[i].min), move_step[i])],
        3)

\* The local `intervals`.
SlabIntervals(entity_bbox, move_step, other_bbox) ==
    The({<<Normalized(q[1]), Normalized(q[2]), Normalized(q[3])>> :
           q \in {SlabQuotients(entity_bbox, move_step, other_bbox)}})

\* The normal of the axis whose entry time is the lower bound of the intersection.
SlabNormal(intervals, intersection, move_step) ==
    IF QuotEq(intersection.min, intervals[1].min)
    THEN IF Sign(move_step[1]) > 0 THEN <<-1, 0, 0>> ELSE <<1, 0, 0>>
    ELSE IF QuotEq(intersection.min, intervals[2].min)
    THEN IF Sign(move_step[2]) > 0 THEN <<0, -1, 0>> ELSE <<0, 1, 0>>
    ELSE IF Sign(move_step[3]) > 0 THEN <<0, 0, -1>> ELSE <<0, 0, 1>>

\* The local other_bbox.
OtherBBox(box_collider, other_position) ==
    BoxOffset(FromRadiusHeight(box_collider.radius, box_collider.height), other_position)

\* A comparison that never finds the two boxes equal.
SameBoxNever(entity_bbox, other_bbox) == FALSE

\* entity_bbox == &other_bbox
SameBox(entity_bbox, other_bbox) == entity_bbox = other_bbox

\* The joined entities, by their place in the join, for which trace_aabb does
\* not return at "Don't collide against self".
ReachSlabTest(entity_bbox, colliders) ==
    {i \in DOMAIN colliders :
       ~ SameBox(entity_bbox, OtherBBox(colliders[i].box_collider, colliders[i].position))}

\* MoveTracer::trace_aabb
TraceAabb(entity_bbox, move_step, box_collider, other_position) ==
    IF SameBox(entity_bbox, OtherBBox(box_collider, other_position))
    THEN NoHit
    ELSE The({The({IF \/ IsEmpty(intersection)
                      \/ QuotLess(intersection.min, QuotZero)
                      \/ QuotLess(One, intersection.min)
                   THEN NoHit
                   ELSE [some |-> TRUE, fraction |-> intersection.min,
                         normal |-> SlabNormal(intervals, intersection, move_step),
                         solid_mask |-> box_collider.solid_mask] :
                     intersection \in {Intersection(Intersection(intervals[1], intervals[2]),
                                                    intervals[3])}}) :
                intervals \in {SlabIntervals(entity_bbox, move_step,
                                              OtherBBox(box_collider, other_position))}})

\* What trace_aabb returns for the joined entities from the i-th on, a hit
\* counting only when the masks intersect.
RECURSIVE AabbHits(_, _, _, _, _)
AabbHits(entity_bbox, move_step, solid_mask, colliders, i) ==
    IF i > Len(colliders)
    THEN << >>
    ELSE << The({[hit EXCEPT !.some = hit.some /\ MaskIntersects(solid_mask, hit.solid_mask)] :
                   hit \in {TraceAabb(entity_bbox, move_step, colliders[i].box_collider,
                                      colliders[i].position)}}) >>
         \o AabbHits(entity_bbox, move_step, solid_mask, colliders, i + 1)

\* A comparison that lets a candidate at the very end of the step in.
WithinStepInclusive(f, best) == QuotLess(f, best) \/ (QuotEq(best, One) /\ QuotEq(f, One))

\* intersect.fraction < ret.as_ref().map_or(1.0, |x| x.fraction)
WithinStep(f, best) == QuotLess(f, best)

\* ret after the candidates from the j-th on were offered to trace's three
\* loops in order.
RECURSIVE Accepted(_, _, _)
Accepted(cands, j, ret) ==
    IF j > Len(cands)
    THEN ret
    ELSE The({Accepted(cands, j + 1, next) :
                next \in {IF cands[j].some /\ WithinStep(cands[j].fraction, ret.fraction)
                          THEN cands[j]
                          ELSE ret}})

\* The candidates trace's three loops are given, in order: the linedefs when
\* the step has a horizontal part, the sectors when it has a vertical part,
\* and the entities that have a Transform and a BoxCollider.
Candidates(entity_bbox, move_step, solid_mask, colliders) ==
    (IF move_step[1] # Zero \/ move_step[2] # Zero
     THEN LinedefHits(entity_bbox, move_step, solid_mask, 1)
     ELSE << >>)
    \o (IF move_step[3] # Zero
        THEN SectorHits(entity_bbox, move_step, solid_mask, 1)
        ELSE << >>)
    \o AabbHits(entity_bbox, move_step, solid_mask, colliders, 1)

\* MoveTracer::trace
Trace(entity_bbox, move_step, solid_mask, colliders) ==
    The({Accepted(cands, 1, NoHit) :
           cands \in {Candidates(entity_bbox, move_step, solid_mask, colliders)}})

\* ------------------------------------- PhysicsSystem::run_now (physics.rs 25-103)

\* Vector3::dot
Dot(a, b) == Add(Add(Mul(a[1], b[1]), Mul(a[2], b[2])), Mul(a[3], b[3]))

\* "Push back against the collision" without the factor 1.01.
ProjectedPlain(v, normal) == VecSub(v, VecScale(NumVec(normal), Dot(v, NumVec(normal))))

\* "Push back against the collision": the velocity after
\* new_velocity -= normal * new_velocity.dot(&normal) * 1.01.
Projected(v, normal) ==
    VecSub(v, VecScale(VecScale(NumVec(normal), Dot(v, NumVec(normal))), <<1, 1>>))

\* A loop without the test against bouncing.
NeverBounced(v, original) == FALSE

\* new_velocity.dot(&velocity.velocity) <= 0.0
Bounced(v, original) == Sign(Dot(v, original)) <= 0

\* The speeds an entity is given along an axis: half a unit per half frame.
Speeds == {<<-1, 50>>, Zero, <<0, 50>>}

Velocities == {<<x, y, Zero>> : x \in Speeds, y \in Speeds}

\* Where the entity may be put: inside the room, clear of the door face.
StartPositions ==
    {<<Num(x), Num(y), Num(2)>> : x \in 1..7, y \in 1..5} \
        {<<Num(4), Num(y), Num(2)>> : y \in 1..2}

\* The components the physics join asks for.
JoinComponents == {"BoxCollider", "Transform", "Velocity"}

\* The components an entity is created with: all three, or all but one.
MoverComponentSets == {JoinComponents} \cup {JoinComponents \ {c} : c \in JoinComponents}

\* A join that takes every entity.
InJoinAlways == TRUE

\* (&entities, &box_collider_component, transform_mask, &mut velocity_component).join()
\* yields the entity.
InJoin == JoinComponents \subseteq mover_components

PhysInit ==
    /\ phys_pc = "wait"
    /\ mover_components = {}
    /\ position = ZeroVec
    /\ velocity = ZeroVec
    /\ new_position = ZeroVec
    /\ new_velocity = ZeroVec
    /\ iterations = 0
    /\ intersect = NoHit
    /\ ticks = 0
    /\ overlap_closed = TRUE

\* The entity is created with its Transform and Velocity.
SpawnMover ==
    /\ phys_pc = "wait"
    /\ phys_pc' = "idle"
    /\ position' \in StartPositions
    /\ velocity' \in Velocities
    /\ overlap_closed' \in BOOLEAN
    /\ mover_components' \in MoverComponentSets
    /\ UNCHANGED <<new_position, new_velocity, iterations, intersect, ticks>>

\* Another system writes the Velocity between two ticks.
SetVelocity ==
    /\ phys_pc = "idle"
    /\ "Velocity" \in mover_components
    /\ velocity' \in Velocities \ {velocity}
    /\ UNCHANGED <<phys_pc, position, new_position, new_velocity, iterations, intersect, ticks,
                   overlap_closed, mover_components>>

\* A tick begins.  When the join yields the entity the locals are set, and a
\* zero velocity skips it; an entity the join does not yield is not looked at.
PhysBegin ==
    /\ phys_pc = "idle"
    /\ ticks < MaxTicks
    /\ ticks' = ticks + 1
    /\ IF InJoin
       THEN /\ new_position' = position
            /\ new_velocity' = velocity
            /\ iterations' = 0
            /\ phys_pc' = IF velocity = ZeroVec THEN "idle" ELSE "loop"
       ELSE UNCHANGED <<phys_pc, new_position, new_velocity, iterations>>
    /\ UNCHANGED <<position, velocity, intersect, overlap_closed, mover_components>>

\* What move_tracer.trace returns to the loop's next iteration.
CurrentHit ==
    Trace(BoxOffset(FromRadiusHeight(MoverCollider.radius, MoverCollider.height),
                    new_position),
          VecScale(new_velocity, Num(FRAME_TIME)),
          NON_MONSTER,
          << [position |-> position, box_collider |-> MoverCollider] >>)

\* An iteration of `for _ in 0..4` begins: the call of move_tracer.trace.
PhysTrace ==
    /\ phys_pc = "loop"
    /\ iterations' = iterations + 1
    /\ intersect' = CurrentHit
    /\ phys_pc' = "hit"
    /\ UNCHANGED <<position, velocity, new_position, new_velocity, ticks, overlap_closed,
                   mover_components>>

\* The rest of the iteration: the two branches of `if let Some(intersect)`.
PhysIter ==
    /\ phys_pc = "hit"
    /\ intersect' = NoHit
    /\ IF intersect.some
       THEN \E pushed \in {Projected(new_velocity, intersect.normal)} :
              /\ new_position' = new_position
              /\ IF Bounced(pushed, velocity)
                 THEN new_velocity' = ZeroVec /\ phys_pc' = "write"
                 ELSE /\ new_velocity' = pushed
                      /\ phys_pc' = IF iterations = 4 THEN "write" ELSE "loop"
       ELSE /\ new_position' = VecAdd(new_position, VecScale(new_velocity, Num(FRAME_TIME)))
            /\ new_velocity' = new_velocity
            /\ phys_pc' = "write"
    /\ UNCHANGED <<position, velocity, iterations, ticks, overlap_closed, mover_components>>

\* transform.position = new_position; velocity.velocity = new_velocity;
PhysWriteBack ==
    /\ phys_pc = "write"
    /\ position' = new_position
    /\ velocity' = new_velocity
    /\ phys_pc' = "idle"
    /\ UNCHANGED <<new_position, new_velocity, iterations, intersect, ticks, overlap_closed,
                   mover_components>>

\* --------------------------- one call of MoveTracer::trace (physics.rs 135-183)

\* Where the traced entity stands: in the first room, on its floor or with
\* its head one unit or half a unit below the ceiling.
SweepPositions ==
    {<<Num(x), Num(y), z>> : x \in {2, 6}, y \in {1, 3}, z \in {Num(0), Num(3), <<3, 50>>}}

\* Where a second entity stands.
OtherPositions == {<<Num(4), Num(3), Num(0)>>, <<Num(5), Num(3), Num(0)>>, <<Num(4), Num(3), Num(5)>>}

\* The steps handed to the tracer.
MoveSteps == {<<Num(x), Num(y), Num(z)>> : x, y, z \in -MaxStep..MaxStep}

\* The BoxCollider of a second entity, with a mask the mover's mask matches
\* or does not match.
OtherCollider(mask) == [radius |-> 1, height |-> 5, solid_mask |-> mask]

\* The second entities: apart from the mover, touching it, over it, with the
\* very same box, or with a mask that does not match.
Others(mover_position) ==
    {[position |-> at, box_collider |-> OtherCollider(NON_MONSTER)] :
       at \in OtherPositions \cup {mover_position}}
    \cup {[position |-> <<Num(4), Num(3), Num(0)>>, box_collider |-> OtherCollider({"MONSTER"})]}

SweepInit ==
    /\ sweep_pc = "wait"
    /\ sweep_position = ZeroVec
    /\ sweep_step = ZeroVec
    /\ sweep_colliders = << >>
    /\ sweep_candidates = << >>
    /\ sweep_result = NoHit
    /\ slab_tested = {}

\* The world a call of trace finds: the traced entity, alone or with a second
\* entity that stands apart from it, touches it or has the very same box.
SweepBegin ==
    /\ sweep_pc = "wait"
    /\ sweep_pc' = "call"
    /\ sweep_position' \in SweepPositions
    /\ sweep_step' \in MoveSteps
    /\ \E others \in {<< >>} \cup {<<other>> : other \in Others(sweep_position')} :
         sweep_colliders' =
           <<[position |-> sweep_position', box_collider |-> MoverCollider]>> \o others
    /\ overlap_closed' \in BOOLEAN
    /\ UNCHANGED <<sweep_candidates, sweep_result, slab_tested>>

\* The argument entity_bbox of the call.
SweepBox ==
    BoxOffset(FromRadiusHeight(MoverCollider.radius, MoverCollider.height), sweep_position)

\* move_tracer.trace(&entity_bbox.offset(new_position), move_step, SolidMask::NON_MONSTER)
SweepTrace ==
    /\ sweep_pc = "call"
    /\ sweep_pc' = "done"
    /\ sweep_candidates' = Candidates(SweepBox, sweep_step, NON_MONSTER, sweep_colliders)
    /\ sweep_result' = Accepted(sweep_candidates', 1, NoHit)
    /\ slab_tested' = ReachSlabTest(SweepBox, sweep_colliders)
    /\ UNCHANGED <<sweep_position, sweep_step, sweep_colliders, overlap_closed>>

\* ------------------------- EntityTemplate::add_to_entity (component.rs 16-39)

\* The component types of the entities.
ComponentTypes == {"BoxCollider", "SpriteRender", "Velocity"}

\* A function with the entries of f, those of g taking precedence.
Overridden(f, g) == [k \in DOMAIN f \cup DOMAIN g |-> IF k \in DOMAIN g THEN g[k] ELSE f[k]]

TemplateInit ==
    /\ template_pc = "wait"
    /\ components = << >>
    /\ unvisited = {}
    /\ storage = << >>
    /\ storage_before = << >>
    /\ rejected = {}

\* add_to_entity is called: a template built with add_component, an entity that
\* may carry components already, and a store that rejects some inserts.
TemplateBegin ==
    /\ template_pc = "wait"
    /\ \E T \in SUBSET ComponentTypes : components' = [t \in T |-> "template"]
    /\ \E T \in SUBSET ComponentTypes : storage' = [t \in T |-> "earlier"]
    /\ rejected' \in SUBSET ComponentTypes
    /\ unvisited' = DOMAIN components'
    /\ storage_before' = storage'
    /\ template_pc' = "loop"

\* A loop that goes on with the next component after an error.
SkipRejectedInsert == "loop"

\* Where add_to_entity goes when an insert fails: `?` returns the error.
OnRejectedInsert == "err"

\* One iteration of `for dyn_component in self.components.values()`: the
\* HashMap yields the components in no particular order, and
\* world.write_component().insert(entity, self.clone()) puts the clone in
\* the place of whatever the entity had.
AddComponent ==
    /\ template_pc = "loop"
    /\ \E t \in unvisited :
         /\ unvisited' = unvisited \ {t}
         /\ IF t \in rejected
            THEN /\ template_pc' = OnRejectedInsert
                 /\ storage' = storage
            ELSE /\ template_pc' = template_pc
                 /\ storage' = Overridden(storage, (t :> components[t]))
    /\ UNCHANGED <<components, storage_before, rejected>>

\* Every component was visited: Ok(()).
TemplateEnd ==
    /\ template_pc = "loop"
    /\ unvisited = {}
    /\ template_pc' = "ok"
    /\ UNCHANGED <<components, unvisited, storage, storage_before, rejected>>

\* ------------------------- the BSP queries step by step (map/mod.rs 189-228)

\* Side, as used to index child_indices: the right side of a plane is the
\* one its normal points to.
Right == 0

Left == 1

Coordinates == 0..MaxCoordinate

\* Map.nodes of a second map, split by the slanted planes x + y = 7 and x = y.
SlantedNodes ==
    << [normal |-> <<1, 1>>, distance |-> 7,
        child_indices |-> <<NodeChild("Node", 1), NodeChild("Subsector", 0)>>],
       [normal |-> <<1, -1>>, distance |-> 0,
        child_indices |-> <<NodeChild("Subsector", 2), NodeChild("Subsector", 1)>>] >>

NodeTrees == {MapNodes, SlantedNodes}

\* AABB2 with the corners (x1, y1) and (x2, y2): bbox[1] is the code's bbox[0].
QueryBox(x1, x2, y1, y2) == << [min |-> x1, max |-> x2], [min |-> y1, max |-> y2] >>

QueryBoxes ==
    {b \in {QueryBox(x1, x2, y1, y2) : x1 \in Coordinates, x2 \in Coordinates,
                                       y1 \in Coordinates, y2 \in Coordinates} :
        b[1].min <= b[1].max /\ b[2].min <= b[2].max}

BspInit ==
    /\ bsp_pc = "wait"
    /\ nodes = MapNodes
    /\ find_point = <<0, 0>>
    /\ find_child = NodeChild("Node", 0)
    /\ path = << >>
    /\ query_bbox = QueryBox(0, 0, 0, 0)
    /\ calls = << >>
    /\ visits = << >>

\* Map::find_subsector on the nodes of any map: the subsector index it returns.
RECURSIVE DescendIn(_, _, _)
DescendIn(tree, from, at) ==
    IF from.kind = "Subsector"
    THEN from.index
    ELSE DescendIn(tree, SideChild(tree[from.index + 1], at), at)

FindSubsectorIn(tree, at) == DescendIn(tree, NodeChild("Node", 0), at)

\* find_subsector is called: let mut child = NodeChild::Node(0).
FindBegin ==
    /\ bsp_pc = "wait"
    /\ nodes' \in NodeTrees
    /\ find_point' \in Coordinates \X Coordinates
    /\ find_child' = NodeChild("Node", 0)
    /\ bsp_pc' = "find"
    /\ UNCHANGED <<path, query_bbox, calls, visits>>

\* One turn of the loop on a node: child = node.child_indices[(dot <= 0.0) as usize].
FindStep ==
    /\ bsp_pc = "find"
    /\ find_child.kind = "Node"
    /\ find_child' = SideChild(nodes[find_child.index + 1], find_point)
    /\ path' = Append(path, <<find_child.index, find_child'>>)
    /\ UNCHANGED <<bsp_pc, nodes, find_point, query_bbox, calls, visits>>

\* The turn of the loop on a subsector: return &self.subsectors[index].
FindReturn ==
    /\ bsp_pc = "find"
    /\ find_child.kind = "Subsector"
    /\ bsp_pc' = "found"
    /\ UNCHANGED <<nodes, find_point, find_child, path, query_bbox, calls, visits>>

\* The local `sides` of traverse_nodes: the four corners of the box against the plane.
BoxSides(node, box) ==
    << Dot2(<<box[1].min, box[2].min>>, node.normal) - node.distance,
       Dot2(<<box[1].min, box[2].max>>, node.normal) - node.distance,
       Dot2(<<box[1].max, box[2].min>>, node.normal) - node.distance,
       Dot2(<<box[1].max, box[2].max>>, node.normal) - node.distance >>

\* sides.iter().any(|x| *x >= 0.0)
RightReached(sides) == \E i \in DOMAIN sides : sides[i] >= 0

\* A traversal that takes the left child only for a corner strictly behind the plane.
LeftReachedStrict(sides) == \E i \in DOMAIN sides : sides[i] < 0

\* sides.iter().any(|x| *x <= 0.0)
LeftReached(sides) == \E i \in DOMAIN sides : sides[i] <= 0

\* The recursive calls traverse_nodes makes on a node, in their order.
ChildCalls(node, box) ==
    (IF RightReached(BoxSides(node, box)) THEN <<node.child_indices[Right + 1]>> ELSE << >>)
    \o (IF LeftReached(BoxSides(node, box)) THEN <<node.child_indices[Left + 1]>> ELSE << >>)

\* traverse_nodes(NodeChild::Node(0), bbox, func) is called.
TraverseBegin ==
    /\ bsp_pc = "wait"
    /\ nodes' \in NodeTrees
    /\ query_bbox' \in QueryBoxes
    /\ calls' = << NodeChild("Node", 0) >>
    /\ bsp_pc' = "traverse"
    /\ UNCHANGED <<find_point, find_child, path, visits>>

\* One call of traverse_nodes: func(node), then the calls on the children
\* before anything that was pending.
TraverseCall ==
    /\ bsp_pc = "traverse"
    /\ calls # << >>
    /\ visits' = Append(visits, Head(calls))
    /\ calls' = IF Head(calls).kind = "Node"
                THEN ChildCalls(nodes[Head(calls).index + 1], query_bbox) \o Tail(calls)
                ELSE Tail(calls)
    /\ UNCHANGED <<bsp_pc, nodes, find_point, find_child, path, query_bbox>>

\* The outermost call returns.
TraverseReturn ==
    /\ bsp_pc = "traverse"
    /\ calls = << >>
    /\ bsp_pc' = "traversed"
    /\ UNCHANGED <<nodes, find_point, find_child, path, query_bbox, calls, visits>>

\* ------------------------------------------------------- the specifications

vars == <<doorVars, spawnVars, physVars, templateVars, bspVars, sweepVars>>

\* What the steps of one part of the program leave alone.
notDoorVars == <<spawnVars, physVars, templateVars, bspVars, sweepVars>>

notSpawnVars == <<doorVars, physVars, templateVars, bspVars, sweepVars>>

notPhysVars == <<doorVars, spawnVars, templateVars, bspVars, sweepVars>>

notTemplateVars == <<doorVars, spawnVars, physVars, bspVars, sweepVars>>

notBspVars == <<doorVars, spawnVars, physVars, templateVars, sweepVars>>

\* A call of the tracer also fixes how AABB2::overlaps treats touching boxes.
notSweepVars == <<doorVars, spawnVars, phys_pc, position, velocity, new_position, new_velocity,
                  iterations, intersect, ticks, mover_components, templateVars, bspVars>>

Init == DoorInit /\ SpawnInit /\ PhysInit /\ TemplateInit /\ BspInit /\ SweepInit

\* The mechanisms: use events, obstructing entities and the frames.
Next ==
    \/ (\E l \in Linedefs : WriteUse(l)) /\ UNCHANGED notDoorVars
    \/ (\E s \in DoorSectors : MoveBlocker(s)) /\ UNCHANGED notDoorVars
    \/ RunBegin /\ UNCHANGED notDoorVars
    \/ ProcessUseEvent /\ UNCHANGED notDoorVars
    \/ EventsDone /\ UNCHANGED notDoorVars
    \/ DoorStep /\ UNCHANGED notDoorVars
    \/ DoorsDone /\ UNCHANGED notDoorVars
    \/ SwitchTick /\ UNCHANGED notDoorVars
    \/ SoundSystemRun /\ UNCHANGED notDoorVars

Spec == Init /\ [][Next]_vars

\* The spawner: one call of spawn_things on any list of things.
NextSpawn ==
    \/ SpawnBegin /\ UNCHANGED notSpawnVars
    \/ SpawnThing /\ UNCHANGED notSpawnVars
    \/ SpawnEnd /\ UNCHANGED notSpawnVars

SpecSpawn == Init /\ [][NextSpawn]_vars

\* The movement: one entity, its velocity written between the physics ticks.
NextPhysics ==
    \/ SpawnMover /\ UNCHANGED notPhysVars
    \/ SetVelocity /\ UNCHANGED notPhysVars
    \/ PhysBegin /\ UNCHANGED notPhysVars
    \/ PhysTrace /\ UNCHANGED notPhysVars
    \/ PhysIter /\ UNCHANGED notPhysVars
    \/ PhysWriteBack /\ UNCHANGED notPhysVars

SpecPhysics == Init /\ [][NextPhysics]_vars

\* The template: one call of add_to_entity on any template, entity and store.
NextTemplate ==
    \/ TemplateBegin /\ UNCHANGED notTemplateVars
    \/ AddComponent /\ UNCHANGED notTemplateVars
    \/ TemplateEnd /\ UNCHANGED notTemplateVars

SpecTemplate == Init /\ [][NextTemplate]_vars

\* The BSP queries: one call of find_subsector or of traverse_nodes, on any
\* point or box of the grid; a call that was begun keeps running.
NextBsp ==
    \/ FindBegin /\ UNCHANGED notBspVars
    \/ FindStep /\ UNCHANGED notBspVars
    \/ FindReturn /\ UNCHANGED notBspVars
    \/ TraverseBegin /\ UNCHANGED notBspVars
    \/ TraverseCall /\ UNCHANGED notBspVars
    \/ TraverseReturn /\ UNCHANGED notBspVars

BspRuns ==
    (FindStep \/ FindReturn \/ TraverseCall \/ TraverseReturn) /\ UNCHANGED notBspVars

SpecBsp == Init /\ [][NextBsp]_vars /\ WF_vars(BspRuns)

\* The tracer: one call of MoveTracer::trace for any position, step and
\* second entity.
NextSweep ==
    \/ SweepBegin /\ UNCHANGED notSweepVars
    \/ SweepTrace /\ UNCHANGED notSweepVars

SpecSweep == Init /\ [][NextSweep]_vars


\* ------------------------------------- the undisturbed door cycle (for C4)

\* The sectors a use of linedef l is aimed at.
Targets(l) ==
    IF MapLinedefs[l].use = "DoorUse"
    THEN {MapLinedefs[l].back} \ {NoSector}
    ELSE IF MapLinedefs[l].use = "DoorSwitchUse"
    THEN {s \in Sectors : MapSectors[s].sector_tag = MapLinedefs[l].sector_tag}
    ELSE {}

\* A use event that is no further use of an active door: every earlier event
\* has been read, and no sector the linedef is aimed at has a DoorActive.
WriteFirstUse(l) ==
    /\ reader = Len(channel)
    /\ Targets(l) \cap DOMAIN door_active = {}
    /\ WriteUse(l)

NextCycle ==
    \/ (\E l \in Linedefs : WriteFirstUse(l)) /\ UNCHANGED notDoorVars
    \/ RunBegin /\ UNCHANGED notDoorVars
    \/ ProcessUseEvent /\ UNCHANGED notDoorVars
    \/ EventsDone /\ UNCHANGED notDoorVars
    \/ DoorStep /\ UNCHANGED notDoorVars
    \/ DoorsDone /\ UNCHANGED notDoorVars
    \/ SwitchTick /\ UNCHANGED notDoorVars
    \/ SoundSystemRun /\ UNCHANGED notDoorVars

\* The main loop keeps running frames (main.rs 166-283).
SpecCycle == Init /\ [][NextCycle]_vars /\ WF_vars(Frame /\ UNCHANGED notDoorVars)

\* ================================================================== claims

\* The event the event loop handled last in the current run.
LastEvent == channel[reader - batch + handled]

\* C1: a DoorUse event on a linedef whose back sector has no DoorActive and
\* has neighbours creates a DoorActive on that sector with open_height = the
\* lowest current neighbour ceiling minus 4, close_height = the sector's
\* current floor, state Closed and time_left = wait_time = the linedef's
\* configured wait time.
C1_DoorUseCreatesDoor ==
    [][\A l \in Linedefs :
        LET s == MapLinedefs[l].back IN
        (/\ pc = "events" /\ handled < batch /\ CurrentEvent = l
         /\ MapLinedefs[l].use = "DoorUse"
         /\ s # NoSector
         /\ s \notin DOMAIN door_active
         /\ MapSectors[s].neighbours # << >>)
        => /\ s \in DOMAIN door_active'
           /\ \E n \in SeqRange(MapSectors[s].neighbours) :
                 /\ door_active'[s].open_height = ceiling[n] - 4
                 /\ \A m \in SeqRange(MapSectors[s].neighbours) : ceiling[n] <= ceiling[m]
           /\ door_active'[s].close_height = floor[s]
           /\ door_active'[s].state = "Closed"
           /\ door_active'[s].time_left = MapLinedefs[l].wait_time
           /\ door_active'[s].wait_time = MapLinedefs[l].wait_time]_vars

\* C1 witness: the direct use of linedef 2 has just created door 2 while its
\* neighbour, door 1, stands open above its static ceiling height.
C1_Witness ==
    /\ pc = "events" /\ handled > 0 /\ LastEvent = 2
    /\ 2 \in DOMAIN door_active
    /\ door_active[2].state = "Closed"
    /\ door_active[2].open_height = ceiling[1] - 4
    /\ ceiling[1] > MapSectors[1].max

\* The Opening tick of the door of sector s is the next step of the join.
OpeningTick(s) ==
    /\ pc = "doors"
    /\ s \in DOMAIN door_active
    /\ \A t \in DOMAIN door_active : t >= cursor => s <= t
    /\ s >= cursor
    /\ door_active[s].state = "Opening"

\* C2 (as amended): an Opening tick never leaves the ceiling above
\* open_height; on the tick in which ceiling + speed*dt exceeds open_height the
\* ceiling equals exactly open_height, the state becomes Open and time_left
\* is reset to wait_time; on a tick that lands exactly on open_height (or
\* below it) the door stays Opening with its timer untouched.
C2_OpeningClamps ==
    [][\A s \in Sectors :
        OpeningTick(s) =>
          LET d == door_active[s]
              target == ceiling[s] + d.speed * FRAME_TIME
          IN
          /\ ceiling'[s] <= d.open_height
          /\ target > d.open_height =>
               /\ ceiling'[s] = d.open_height
               /\ door_active'[s].state = "Open"
               /\ door_active'[s].time_left = d.wait_time
          /\ target <= d.open_height =>
               /\ ceiling'[s] = target
               /\ door_active'[s] = d]_vars

\* C2 as claimed: on the tick in which the rising ceiling reaches open_height,
\* landing exactly on it included, the door becomes Open.
C2_OpenOnReaching ==
    [][\A s \in Sectors :
        (OpeningTick(s)
         /\ ceiling[s] + door_active[s].speed * FRAME_TIME >= door_active[s].open_height)
        => /\ ceiling'[s] = door_active[s].open_height
           /\ door_active'[s].state = "Open"
           /\ door_active'[s].time_left = door_active[s].wait_time]_vars

\* C2 witness: a door that overshot has been clamped and opened, while another
\* door has landed exactly on its open height and is still Opening.
C2_Witness ==
    /\ pc = "doors"
    /\ \E s, t \in DOMAIN door_active :
          /\ s < cursor /\ t < cursor
          /\ door_active[s].state = "Open"
          /\ door_active[s].time_left = door_active[s].wait_time
          /\ ceiling[s] = door_active[s].open_height
          /\ door_active[s].wait_time > 0
          /\ door_active[t].state = "Opening"
          /\ ceiling[t] = door_active[t].open_height

\* C3 as claimed: when the DoorActive of an unobstructed closing door is
\* removed, the sector's ceiling equals close_height.
C3_RemovedAtCloseHeight ==
    [][\A s \in Sectors :
        (s \in DOMAIN door_active /\ s \notin DOMAIN door_active')
        => ceiling'[s] = door_active[s].close_height]_vars

\* C5: while a SwitchActive is present on a linedef, a further DoorSwitchUse
\* event for that linedef changes no DoorActive, no texture, no SwitchActive
\* and queues no sound.
C5_ActiveSwitchIgnoresUse ==
    [][\A l \in Linedefs :
        (/\ pc = "events" /\ handled < batch /\ CurrentEvent = l
         /\ MapLinedefs[l].use = "DoorSwitchUse"
         /\ l \in DOMAIN switch_active)
        => /\ door_active' = door_active
           /\ textures' = textures
           /\ switch_active' = switch_active
           /\ sound_queue' = sound_queue
           /\ ceiling' = ceiling]_vars

\* C5 witness: a use of switch 5 was handled while its SwitchActive, set in an
\* earlier frame, was counting down, and a tagged sector without DoorActive
\* was there to be activated.
C5_Witness ==
    /\ pc = "events" /\ handled > 0 /\ LastEvent = 5
    /\ 5 \in DOMAIN switch_active
    /\ switch_active[5].time_left < MapLinedefs[5].switch_time
    /\ \E s \in Sectors : MapSectors[s].sector_tag = MapLinedefs[5].sector_tag
                          /\ s \notin DOMAIN door_active

\* The only changes of a sector's DoorActive the cycle allows.
CycleStep(s) ==
    /\ (s \notin DOMAIN door_active /\ s \in DOMAIN door_active')
          => door_active'[s].state = "Closed"
    /\ (s \in DOMAIN door_active /\ s \in DOMAIN door_active'
          /\ door_active'[s].state # door_active[s].state)
          => <<door_active[s].state, door_active'[s].state>> \in
                {<<"Closed", "Opening">>, <<"Opening", "Open">>, <<"Open", "Closing">>}
    /\ (s \in DOMAIN door_active /\ s \notin DOMAIN door_active')
          => door_active[s].state = "Closing"

\* C4: with a positive tick delta and door speed, no obstruction and no
\* further use events, every DoorActive that is created goes through Closed,
\* Opening, Open, Closing in that order and is eventually removed.
C4_DoorCycle ==
    /\ [][\A s \in Sectors : CycleStep(s)]_vars
    /\ \A s \in Sectors : (s \in DOMAIN door_active) ~> (s \notin DOMAIN door_active)

\* C4 witness: door 1 has gone through its cycle and been removed, its
\* ceiling having come down again from the open height.
C4_Witness ==
    /\ pc = "switches"
    /\ 1 \notin DOMAIN door_active
    /\ ceiling[1] < MapSectors[1].max
    /\ channel # << >>

\* C10 as claimed: a use event whose target cannot be opened (a direct use
\* without back sidedef; any use all of whose target sectors lack neighbours)
\* creates no DoorActive and no SwitchActive, changes no height and no
\* texture, and queues no sound.
C10_UnopenableUseIsNoOp ==
    [][\A l \in Linedefs :
        (/\ pc = "events" /\ handled < batch /\ CurrentEvent = l
         /\ MapLinedefs[l].use \in {"DoorUse", "DoorSwitchUse"}
         /\ \/ MapLinedefs[l].use = "DoorUse" /\ MapLinedefs[l].back = NoSector
            \/ Targets(l) # {} /\ \A s \in Targets(l) : MapSectors[s].neighbours = << >>)
        => /\ door_active' = door_active
           /\ switch_active' = switch_active
           /\ ceiling' = ceiling
           /\ floor' = floor
           /\ textures' = textures
           /\ sound_queue' = sound_queue]_vars

\* ------------------------------------------------------ claims on the spawner

\* The sector a point of the map lies in, read off the floor plan: the first
\* room left of and on x = 4, the second room below and on y = 2, door 1
\* up to x = 6 and the isolated sector beyond.
RegionSector(point) ==
    IF point[1] <= 4 THEN 3
    ELSE IF point[2] <= 2 THEN 4
    ELSE IF point[1] <= 6 THEN 1
    ELSE 5

\* The i-th entity comes from the i-th thing as long as no thing was skipped.
ThingOf(i) == things[i]

\* C8: every entity spawn_things created stands at the ceiling of the sector
\* under its thing minus the marker's offset when its template carries the
\* SpawnOnCeiling marker, and on that sector's floor otherwise; the entity
\* does not carry the marker, the template in the storage still does, and
\* two entities of one template at one place have the same transform.
C8_SpawnPlacement ==
    /\ template_storage = MobjTemplates
    /\ \A i \in 1..Len(world) :
         LET template == MobjTemplates[ThingOf(i).doomednum]
             sector == MapSectors[RegionSector(ThingOf(i).position)]
         IN
         /\ "SpawnOnCeiling" \notin DOMAIN world[i]
         /\ world[i].Transform.position[3] =
              IF "SpawnOnCeiling" \in DOMAIN template
              THEN sector.max - template.SpawnOnCeiling.offset
              ELSE sector.min
    /\ \A i, j \in 1..Len(world) :
         ThingOf(i) = ThingOf(j) => world[i].Transform = world[j].Transform

\* C8 witness: the same hanging template was spawned twice at one place of
\* the second room (ceiling 10, offset 3), and a monster on the floor of the
\* isolated sector.
C8_Witness ==
    /\ spawn_pc = "ok"
    /\ Len(world) = 3
    /\ things[1] = things[2]
    /\ things[1].doomednum = 2
    /\ things[1].position = <<5, 2>>
    /\ world[2].Transform.position[3] = 7
    /\ things[3].doomednum = 1
    /\ world[3].Transform.position[3] = 2

Unknown == {i \in 1..Len(things) : things[i].doomednum \notin DOMAIN MobjTemplates}

FirstUnknown == IF Unknown = {} THEN Len(things) + 1 ELSE MinOf(Unknown)

\* An entity with the template's components (the marker apart), a transform
\* at the thing's place and, with a collider, its box in the quadtree.
SpawnedFrom(i, thing) ==
    LET template == MobjTemplates[thing.doomednum] IN
    /\ DOMAIN world[i] = (DOMAIN template \ {"SpawnOnCeiling"}) \cup {"Transform"}
    /\ \A c \in DOMAIN template \ {"SpawnOnCeiling"} : world[i][c] = template[c]
    /\ world[i].Transform.position[1] = thing.position[1]
    /\ world[i].Transform.position[2] = thing.position[2]
    /\ "BoxCollider" \in DOMAIN template <=> \E e \in quadtree : e[1] = i
    /\ \A e \in quadtree :
         e[1] = i => /\ e[2].xmin = thing.position[1] - template.BoxCollider.radius
                     /\ e[2].xmax = thing.position[1] + template.BoxCollider.radius
                     /\ e[2].ymin = thing.position[2] - template.BoxCollider.radius
                     /\ e[2].ymax = thing.position[2] + template.BoxCollider.radius

MoverBox(at) ==
    [xmin |-> Sub(at[1], Num(MoverCollider.radius)), xmax |-> Add(at[1], Num(MoverCollider.radius)),
     ymin |-> Sub(at[2], Num(MoverCollider.radius)), ymax |-> Add(at[2], Num(MoverCollider.radius))]

\* The box lies in the room bounded by the walls x = 0, x = 8, y = 0 and
\* y = 6, and the face of door 1, from (4,0) to (4,2), does not enter it.
InFront(at) ==
    \A box \in {MoverBox(at)} :
        /\ Cmp(box.xmin, Num(0)) >= 0
        /\ Cmp(box.xmax, Num(8)) <= 0
        /\ Cmp(box.ymin, Num(0)) >= 0
        /\ Cmp(box.ymax, Num(6)) <= 0
        /\ ~(Cmp(box.xmin, Num(4)) < 0 /\ Cmp(box.xmax, Num(4)) > 0 /\ Cmp(box.ymin, Num(2)) < 0)

\* The side of the door face the box stands on while it reaches below the
\* face's upper end: -1 left, 1 right; 0 when it is above the face.
FaceSide(at) ==
    The({IF Cmp(box.ymin, Num(2)) >= 0 THEN 0
         ELSE IF Cmp(box.xmax, Num(4)) <= 0 THEN -1 ELSE 1 : box \in {MoverBox(at)}})

\* The square of the length of the tick's move step is below (2 * radius)^2.
StepShort(v) ==
    \A step \in {VecScale(v, Num(FRAME_TIME))} :
        Cmp(Dot(step, step), Num(4 * MoverCollider.radius * MoverCollider.radius)) < 0

\* C6: when a tick begins with the entity in front of the blocking linedefs
\* (the four walls and the closed door's face) and its move step is shorter
\* than twice its radius, the position written back is in front of them
\* too: inside the walls, not across the door face and not on its other side.
C6_NoTunnelling ==
    [][(phys_pc = "write" /\ InFront(position) /\ StepShort(velocity))
        => /\ InFront(position')
           /\ FaceSide(position) * FaceSide(position') # -1]_vars

\* C6 witness: in its second tick the entity, touching the wall x = 8 after
\* the first, moved into the wall and was held back.
C6_Witness ==
    /\ phys_pc = "write"
    /\ ticks = 2
    /\ position[1] = Num(7)
    /\ Sign(velocity[1]) > 0
    /\ new_position = position

\* C7, amended: the projection leaves along the collision normal the
\* negative of a hundredth of the component the velocity had, so that the
\* component changes its sign: it is >= 0 after a hit whose normal faces the
\* motion, and <= 0 only when the normal points along the motion.
C7_ProjectionReversesComponent ==
    (phys_pc = "hit" /\ intersect.some) =>
        \A before \in {Dot(new_velocity, NumVec(intersect.normal))},
           after \in {Dot(Projected(new_velocity, intersect.normal),
                          NumVec(intersect.normal))} :
            /\ Mul(after, Num(100)) = Neg(before)
            /\ Sign(after) = -Sign(before)

\* C7 witness: the loop is about to project the velocity on a normal that
\* faces the motion.
C7_Witness ==
    /\ phys_pc = "hit"
    /\ intersect.some
    /\ Sign(Dot(new_velocity, NumVec(intersect.normal))) < 0

\* C7 as claimed: after the projection the velocity's component along the
\* collision normal is <= 0.
C7_ComponentNotPositive ==
    (phys_pc = "hit" /\ intersect.some) =>
        Sign(Dot(Projected(new_velocity, intersect.normal), NumVec(intersect.normal))) <= 0

\* ------------------------------------------------ claims on the use events

\* C11: every use event written to the channel is handled exactly once, in
\* channel order, in the first run of the door system after it was written:
\* the events handled so far are always the first events of the channel in
\* their order, between two runs they are exactly the events the reader has
\* read, and once the event loop of a run is over they are the whole channel.
C11_EventsHandledOnce ==
    /\ Len(processed) <= Len(channel)
    /\ processed = SubSeq(channel, 1, Len(processed))
    /\ pc = "idle" => Len(processed) = reader
    /\ pc = "events" => Len(processed) = reader - batch + handled
    /\ pc \in {"doors", "switches", "sound"} => processed = channel

\* C11 witness: a second run has handled the one event written after the
\* first run, which had handled the event before it.
C11_Witness ==
    /\ pc = "events"
    /\ batch = 1 /\ handled = 1
    /\ reader = 2
    /\ processed = channel

\* ------------------------------------------------ claims on the templates

\* The components of the template the loop has inserted.
Applied == (DOMAIN components \ unvisited) \ rejected

\* C12: add_to_entity applies the components one at a time; at every moment
\* the entity carries the template's value for each component inserted so
\* far and is as it was for every other component type; when an insert is
\* rejected the call returns the error at once, with the components
\* inserted before still on the entity and none of the unvisited ones
\* applied; when no insert fails every component of the template is on the
\* entity.
C12_AddToEntity ==
    /\ \A t \in Applied : t \in DOMAIN storage /\ storage[t] = components[t]
    /\ \A t \in ComponentTypes \ Applied :
          /\ t \in DOMAIN storage <=> t \in DOMAIN storage_before
          /\ t \in DOMAIN storage => storage[t] = storage_before[t]
    /\ template_pc = "loop" => (DOMAIN components \ unvisited) \cap rejected = {}
    /\ template_pc = "err" => Cardinality((DOMAIN components \ unvisited) \cap rejected) = 1
    /\ template_pc = "ok" => Applied = DOMAIN components /\ DOMAIN components \cap rejected = {}

\* C12 witness: the call returned the error after inserting one component,
\* which replaced the entity's earlier one, and before visiting another.
C12_Witness ==
    /\ template_pc = "err"
    /\ Cardinality(Applied) = 1
    /\ \E t \in Applied : t \in DOMAIN storage_before /\ storage[t] = "template"
    /\ \E t \in unvisited : t \notin rejected

\* ------------------------------------------------ claims on the BSP queries

\* The subsector a point lies in, read off the planes of the two maps: in the
\* first x <= 4 is subsector 0, beyond it y <= 2 is subsector 1, beyond it
\* x <= 6 is subsector 2 and the rest subsector 3; in the second x + y <= 7
\* is subsector 0, beyond it x <= y is subsector 1 and the rest subsector 2.
RegionLeaf(tree, at) ==
    IF tree = MapNodes
    THEN (IF at[1] <= 4 THEN 0 ELSE IF at[2] <= 2 THEN 1 ELSE IF at[1] <= 6 THEN 2 ELSE 3)
    ELSE (IF at[1] + at[2] <= 7 THEN 0 ELSE IF at[1] <= at[2] THEN 1 ELSE 2)

\* The descent so far starts at node 0, goes from each node to the child it
\* took, and took the negative-side child exactly when the point is on or
\* behind the node's plane.
DescentBySide ==
    /\ Len(path) <= Len(nodes)
    /\ \A i \in DOMAIN path :
          LET node == nodes[path[i][1] + 1]
              dot == Dot2(find_point, node.normal) - node.distance
          IN
          /\ path[i][1] = IF i = 1 THEN 0 ELSE path[i - 1][2].index
          /\ i > 1 => path[i - 1][2].kind = "Node"
          /\ path[i][2] = node.child_indices[IF dot <= 0 THEN Left + 1 ELSE Right + 1]

\* C13: on an acyclic tree rooted at node 0 find_subsector ends, for every
\* point, in exactly one subsector: the leaf reached by taking at every node
\* child_indices[1] when point . normal - distance <= 0 and child_indices[0]
\* otherwise, so that a point on a splitting plane lies on the negative side.
C13_FindSubsector ==
    /\ [](/\ DescentBySide
          /\ bsp_pc = "found" =>
                /\ find_child = NodeChild("Subsector", RegionLeaf(nodes, find_point))
                /\ find_child.index = FindSubsectorIn(nodes, find_point)
                /\ nodes = MapNodes => find_child.index = FindSubsector(find_point))
    /\ (bsp_pc = "find" ~> bsp_pc = "found")

\* C13 witness: a point on the second splitting plane of the first map,
\* y = 2, was found in the subsector on the negative side, after two nodes.
C13_Witness ==
    /\ bsp_pc = "found"
    /\ nodes = MapNodes
    /\ find_point[1] > 4 /\ find_point[2] = 2
    /\ Len(path) = 2
    /\ find_child = NodeChild("Subsector", 1)

\* The points of the grid inside a box, its boundary included.
PointsInside(box) ==
    {at \in Coordinates \X Coordinates :
        /\ box[1].min <= at[1] /\ at[1] <= box[1].max
        /\ box[2].min <= at[2] /\ at[2] <= box[2].max}

\* C14: traverse_nodes from node 0 ends, passes no node and no leaf to the
\* visitor twice, and has passed to it the subsector find_subsector returns
\* for every point inside the query box, boundary included.
C14_TraverseComplete ==
    /\ [](/\ \A i, j \in DOMAIN visits : visits[i] = visits[j] => i = j
          /\ bsp_pc = "traversed" =>
                \A at \in PointsInside(query_bbox) :
                    NodeChild("Subsector", FindSubsectorIn(nodes, at)) \in SeqRange(visits))
    /\ (bsp_pc = "traverse" ~> bsp_pc = "traversed")

\* C14 witness: a box that only touches the plane x = 4 from the positive
\* side was traversed, and the subsector behind the plane was visited.
C14_Witness ==
    /\ bsp_pc = "traversed"
    /\ nodes = MapNodes
    /\ query_bbox[1].min = 4 /\ query_bbox[1].max > 4
    /\ NodeChild("Subsector", 0) \in SeqRange(visits)

\* The quotients trace_aabb computes for the joined entity k on axis i.
QuotientsFor(k, i) ==
    SlabQuotients(SweepBox, sweep_step,
                  OtherBBox(sweep_colliders[k].box_collider, sweep_colliders[k].position))[i]

\* The joined entities whose box is not the traced box itself.
SlabTested ==
    {k \in DOMAIN sweep_colliders :
        SweepBox # OtherBBox(sweep_colliders[k].box_collider, sweep_colliders[k].position)}

\* C15 as claimed: in the slab test of trace_aabb an axis on which the move
\* step is zero brings no undefined quotient into the intervals: neither
\* bound of that axis is NaN.
C15_ZeroAxisNeverNaN ==
    sweep_pc = "done" =>
        \A k \in SlabTested :
            \A i \in 1..3 :
                sweep_step[i] = Zero =>
                    \E q \in {QuotientsFor(k, i)} : ~IsNaN(q.min) /\ ~IsNaN(q.max)

\* The candidates the three loops of the call are given, those with a mask
\* the mover's mask does not match left out.
MatchingCandidates == {c \in SeqRange(sweep_candidates) : c.some}

\* The contacts the corner and vertex tests of trace_linedef find with the
\* one-sided linedefs the swept box reaches, whatever their fraction.
LinedefContacts ==
    LET move2 == <<sweep_step[1], sweep_step[2]>>
        bbox2 == Box2(SweepBox)
    IN
    IF move2 = <<Zero, Zero>>
    THEN {}
    ELSE UNION {{c \in SeqRange(LinedefCandidates(bbox2, move2, WallLinedefs[l])) : c.some} :
                  l \in {k \in DOMAIN WallLinedefs :
                           /\ WallLinedefs[k].sidedefs[2] = NoSector
                           /\ BoxOverlaps(BoxUnion(bbox2, BoxOffset(bbox2, move2)),
                                          LinedefBBox(WallLinedefs[k]))}}

\* The contacts with a matching mask that the step reaches exactly at its end.
ContactsAtStepEnd == {c \in MatchingCandidates \cup LinedefContacts : QuotEq(c.fraction, One)}

\* C16 as claimed: a candidate with a matching mask whose fraction is exactly
\* 1 makes trace return a blocking intersection.
C16_InclusiveAtOne ==
    (sweep_pc = "done" /\ ContactsAtStepEnd # {}) => sweep_result.some

\* C16: trace accepts the fractions from 0 inclusive to 1 exclusive.  What it
\* returns has 0 <= fraction < 1; a candidate with a matching mask and the
\* fraction 0 makes it return an intersection with the fraction 0; when the
\* nearest contact lies exactly at the end of the step it returns None.
C16_HalfOpenFractions ==
    sweep_pc = "done" =>
        /\ sweep_result.some =>
              /\ ~QuotLess(sweep_result.fraction, QuotZero)
              /\ QuotLess(sweep_result.fraction, One)
              /\ sweep_result \in MatchingCandidates
        /\ (\E c \in MatchingCandidates : QuotEq(c.fraction, QuotZero)) =>
              sweep_result.some /\ QuotEq(sweep_result.fraction, QuotZero)
        /\ (\A c \in MatchingCandidates : ~QuotLess(c.fraction, One)) => ~sweep_result.some

\* C16 witness: the mover stood on the floor and stepped down and towards a
\* second entity one unit away: the floor, at fraction 0, was returned, and
\* the entity's box, reached exactly at the end of the step, was not.
C16_Witness ==
    /\ sweep_pc = "done"
    /\ sweep_result.some
    /\ QuotEq(sweep_result.fraction, QuotZero)
    /\ sweep_result.normal = <<0, 0, 1>>
    /\ \E c \in ContactsAtStepEnd : c.normal[1] # 0

\* The event loop is about to handle a DoorSwitchUse event on linedef l,
\* which has no SwitchActive.
SwitchUseOf(l) ==
    /\ pc = "events"
    /\ handled < batch
    /\ CurrentEvent = l
    /\ MapLinedefs[l].use = "DoorSwitchUse"
    /\ l \notin DOMAIN switch_active

\* C17 as claimed: the event creates a DoorActive in state Closed on every
\* sector with the linedef's tag that has no DoorActive yet.
C17_EveryTaggedSectorGetsDoor ==
    [][\A l \in Linedefs :
        SwitchUseOf(l) =>
            \A s \in Sectors :
                (/\ MapSectors[s].sector_tag = MapLinedefs[l].sector_tag
                 /\ s \notin DOMAIN door_active)
                => (s \in DOMAIN door_active' /\ door_active'[s].state = "Closed")]_vars

\* C17: a DoorSwitchUse event on a linedef without SwitchActive creates a
\* DoorActive in state Closed on every sector that has the linedef's tag, no
\* DoorActive yet and at least one neighbour; a tagged sector without
\* neighbours gets none; the sectors that already have a DoorActive keep it
\* exactly as it was; the sectors with other tags get none.
C17_SwitchActivatesTagged ==
    [][\A l \in Linedefs :
        SwitchUseOf(l) =>
            \A s \in Sectors :
                IF s \in DOMAIN door_active
                THEN s \in DOMAIN door_active' /\ door_active'[s] = door_active[s]
                ELSE IF /\ MapSectors[s].sector_tag = MapLinedefs[l].sector_tag
                        /\ MapSectors[s].neighbours # << >>
                THEN /\ s \in DOMAIN door_active'
                     /\ door_active'[s].state = "Closed"
                     /\ door_active'[s] = NewDoor(s, l)
                ELSE s \notin DOMAIN door_active']_vars

\* C17 witness: the use of switch 5 was just handled in a run that found door
\* 1 opening: sector 2, with the same tag, got a DoorActive in state Closed,
\* and door 1 is still opening.
C17_Witness ==
    /\ pc = "events"
    /\ handled > 0
    /\ processed # << >>
    /\ processed[Len(processed)] = 5
    /\ 5 \in DOMAIN switch_active
    /\ DOMAIN door_active = {1, 2}
    /\ door_active[1].state = "Opening"
    /\ door_active[2].state = "Closed"

\* Whether the texture the map gives linedef l's front sidedef in a slot has
\* an entry in the switch table.
IsSwitchTexture(l, slot) == MapLinedefs[l].textures[slot] \in DOMAIN MapSwitches

\* Whether slot is the first of Top, Middle, Bottom with a switch texture.
FirstOfTopMiddleBottom(l, slot) ==
    /\ IsSwitchTexture(l, slot)
    /\ slot = Middle => ~IsSwitchTexture(l, Top)
    /\ slot = Bottom => ~IsSwitchTexture(l, Top) /\ ~IsSwitchTexture(l, Middle)

\* The textures of linedef l are those of the map, but for the one slot the
\* SwitchActive names: it is the first with a switch texture, it holds the
\* switch-table entry, and the SwitchActive keeps the map's texture.
Flipped(l) ==
    \E slot \in {Top, Middle, Bottom} :
        /\ switch_active[l].texture_slot = slot
        /\ FirstOfTopMiddleBottom(l, slot)
        /\ switch_active[l].texture = MapLinedefs[l].textures[slot]
        /\ textures[l][slot] = MapSwitches[MapLinedefs[l].textures[slot]]
        /\ \A other \in {Top, Middle, Bottom} \ {slot} :
              textures[l][other] = MapLinedefs[l].textures[other]

\* C18: a switch flip and its revert are a round trip.  A linedef without
\* SwitchActive has the textures of the map; one with a SwitchActive has
\* them but for the first of the slots Top, Middle, Bottom with a switch
\* texture, which holds the switch-table entry while the SwitchActive holds
\* the old texture and the slot.  The SwitchActive is inserted with
\* switch_time as its time_left, and is removed, the textures being those of
\* the map again, in the tick in which its time_left is below the frame time.
C18_SwitchRoundTrip ==
    /\ [](\A l \in Linedefs :
            IF l \in DOMAIN switch_active
            THEN Flipped(l)
            ELSE textures[l] = MapLinedefs[l].textures)
    /\ [][\A l \in Linedefs :
            /\ (l \notin DOMAIN switch_active /\ l \in DOMAIN switch_active')
               => (/\ SwitchUseOf(l)
                   /\ switch_active'[l].time_left = MapLinedefs[l].switch_time)
            /\ (l \in DOMAIN switch_active /\ pc = "switches")
               => IF switch_active[l].time_left < FRAME_TIME
                  THEN l \notin DOMAIN switch_active'
                  ELSE /\ l \in DOMAIN switch_active'
                       /\ switch_active'[l].time_left = switch_active[l].time_left - FRAME_TIME
                       /\ switch_active'[l].texture = switch_active[l].texture
                       /\ switch_active'[l].texture_slot = switch_active[l].texture_slot]_vars

\* C18 witness: the SwitchActive of switch 5, whose front sidedef has switch
\* textures in the slots Bottom and Middle, was removed in this tick: the
\* revert sound is queued and the three slots hold the map's textures.
C18_Witness ==
    /\ pc = "sound"
    /\ 5 \in SeqRange(processed)
    /\ 5 \notin DOMAIN switch_active
    /\ <<"DSSWTCHN", SectorEntity(MapLinedefs[5].front)>> \in SeqRange(sound_queue)
    /\ textures[5] = MapLinedefs[5].textures

\* C19 as claimed: a DoorUse event on a sector that already has a DoorActive
\* never finds that DoorActive in state Closed, and the frame never ends in
\* the unreachable!() of the re-use match.
C19_ReuseNeverFindsClosed ==
    /\ pc # "panic"
    /\ \A l \in Linedefs :
          (/\ pc = "events"
           /\ handled < batch
           /\ CurrentEvent = l
           /\ MapLinedefs[l].use = "DoorUse"
           /\ MapLinedefs[l].back \in DOMAIN door_active)
          => door_active[MapLinedefs[l].back].state # "Closed"

\* C20: a use event on a door whose state is Closing re-opens it.  The event
\* sets the state to Closed and changes nothing else of the door, no ceiling
\* and no sound; a door in state Closed keeps its ceiling, and the only
\* change made to it is the per-tick transition, which makes it Opening and
\* queues its open sound.
C20_ReopenClosingDoor ==
    [][/\ \A l \in Linedefs :
            (/\ pc = "events"
             /\ handled < batch
             /\ CurrentEvent = l
             /\ MapLinedefs[l].use = "DoorUse"
             /\ MapLinedefs[l].back \in DOMAIN door_active
             /\ door_active[MapLinedefs[l].back].state = "Closing")
            => /\ door_active' =
                    [door_active EXCEPT ![MapLinedefs[l].back].state = "Closed"]
               /\ ceiling' = ceiling
               /\ sound_queue' = sound_queue
       /\ \A s \in DOMAIN door_active :
            door_active[s].state = "Closed"
            => /\ s \in DOMAIN door_active'
               /\ ceiling'[s] = ceiling[s]
               /\ door_active'[s] # door_active[s]
                  => /\ pc = "doors"
                     /\ door_active'[s] = [door_active[s] EXCEPT !.state = "Opening"]
                     /\ sound_queue' =
                          Append(sound_queue, <<door_active[s].open_sound, SectorEntity(s)>>)
       /\ (pc = "doors" /\ \E s \in DOMAIN door_active : s >= cursor)
            => (door_active[NextDoor].state = "Closed"
                => door_active'[NextDoor].state = "Opening")]_vars

\* C20 witness: the only event of this run, a use of linedef 1, has been
\* handled and has left door 1 in state Closed with its ceiling above the
\* close height: the door was closing.
C20_Witness ==
    /\ pc = "events"
    /\ batch = 1
    /\ handled = 1
    /\ processed[Len(processed)] = 1
    /\ 1 \in DOMAIN door_active
    /\ door_active[1].state = "Closed"
    /\ ceiling[1] > door_active[1].close_height
    /\ ceiling[1] < door_active[1].open_height

\* The use event the event loop handles next is a DoorUse of linedef l whose
\* back sector carries a DoorActive.
ReuseOf(l) ==
    /\ pc = "events"
    /\ handled < batch
    /\ CurrentEvent = l
    /\ MapLinedefs[l].use = "DoorUse"
    /\ MapLinedefs[l].back \in DOMAIN door_active

\* The per-tick transition of the door of sector s is the next step of the join.
DoorTick(s) ==
    /\ pc = "doors"
    /\ s \in DOMAIN door_active
    /\ s >= cursor
    /\ NextDoor = s

\* C21: a use event on a door whose state is Opening or Open sets the state
\* to Open with time_left = 0 and changes no ceiling and no sound; a door that
\* is Open with time_left = 0 stays as it is until the per-tick transition
\* comes to it, and that transition makes it Closing and queues its close
\* sound without moving the ceiling, whether or not the ceiling has reached
\* open_height.
C21_ForceCloseEarly ==
    [][/\ \A l \in Linedefs :
            (ReuseOf(l) /\ door_active[MapLinedefs[l].back].state \in {"Opening", "Open"})
            => /\ door_active' = [door_active EXCEPT ![MapLinedefs[l].back].state = "Open",
                                                     ![MapLinedefs[l].back].time_left = 0]
               /\ ceiling' = ceiling
               /\ sound_queue' = sound_queue
       /\ \A s \in DOMAIN door_active :
            (door_active[s].state = "Open" /\ door_active[s].time_left = 0)
            => /\ s \in DOMAIN door_active'
               /\ ceiling'[s] = ceiling[s]
               /\ DoorTick(s)
                  => /\ door_active'[s] = [door_active[s] EXCEPT !.state = "Closing"]
                     /\ sound_queue' =
                          Append(sound_queue, <<door_active[s].close_sound, SectorEntity(s)>>)
               /\ ~ DoorTick(s) => door_active'[s] = door_active[s]]_vars

\* C21 witness: door 1, used again in this run while it was on its way up,
\* has just been made Closing by the join, its close sound the last one
\* queued and its ceiling between the close height and the open height.
C21_Witness ==
    /\ pc = "doors"
    /\ cursor > 1
    /\ processed # << >>
    /\ processed[Len(processed)] = 1
    /\ 1 \in DOMAIN door_active
    /\ door_active[1].state = "Closing"
    /\ door_active[1].time_left = 0
    /\ sound_queue # << >>
    /\ sound_queue[Len(sound_queue)] = <<door_active[1].close_sound, SectorEntity(1)>>
    /\ ceiling[1] > door_active[1].close_height
    /\ ceiling[1] < door_active[1].open_height

\* C22: when an entity stands in the footprint of a Closing door as the join
\* comes to it, that tick leaves the ceiling where it is, sets the state to
\* Closed, queues no sound and does not mark the DoorActive for removal; the
\* Closed door keeps its DoorActive and its ceiling, nothing changes it before
\* the join comes to it again, and the join then makes it Opening, whether or
\* not the entity is still there.
C22_BlockedCloseReopens ==
    [][/\ \A s \in DOMAIN door_active :
            (DoorTick(s) /\ door_active[s].state = "Closing" /\ s \in blockers)
            => /\ ceiling' = ceiling
               /\ door_active' = [door_active EXCEPT ![s].state = "Closed"]
               /\ s \notin done'
               /\ sound_queue' = sound_queue
       /\ \A s \in DOMAIN door_active :
            (door_active[s].state = "Closed" /\ ceiling[s] > door_active[s].close_height)
            => /\ s \in DOMAIN door_active'
               /\ s \notin done'
               /\ ceiling'[s] = ceiling[s]
               /\ DoorTick(s) => door_active'[s] = [door_active[s] EXCEPT !.state = "Opening"]
               /\ ~ DoorTick(s) => door_active'[s] = door_active[s]]_vars

\* C22 witness: the only use event ever written opened door 1; its close was
\* blocked above the close height, and the join of a later run has just made
\* it Opening again, the entity still standing in the footprint.
C22_Witness ==
    /\ pc = "doors"
    /\ cursor > 1
    /\ channel = <<1>>
    /\ batch = 0
    /\ 1 \in blockers
    /\ 1 \in DOMAIN door_active
    /\ door_active[1].state = "Opening"
    /\ sound_queue # << >>
    /\ sound_queue[Len(sound_queue)] = <<door_active[1].open_sound, SectorEntity(1)>>
    /\ ceiling[1] > door_active[1].close_height
    /\ ceiling[1] < door_active[1].open_height

\* The open sounds in a sound queue, as positions of the queue.
OpenSounds(queue) == {i \in DOMAIN queue : queue[i][1] = "DSDOROPN"}

\* C23: a DoorActive that is Closed when the join comes to it becomes
\* Opening in that step, which appends exactly the pair (open_sound, sector
\* entity) to the sound queue and changes no ceiling; no other step queues an
\* open sound or makes a door Opening, the event loop of the run changes no
\* ceiling, and the ceiling of a sector whose open sound is in the queue
\* stays where it is, so that no sector has two open sounds in the queue.
C23_ClosedBecomesOpening ==
    /\ [](\A s \in Sectors :
            Cardinality({i \in OpenSounds(sound_queue) :
                           sound_queue[i][2] = SectorEntity(s)}) <= 1)
    /\ [][/\ \A s \in DOMAIN door_active :
               (DoorTick(s) /\ door_active[s].state = "Closed")
               => /\ door_active' = [door_active EXCEPT ![s].state = "Opening"]
                  /\ sound_queue' =
                       Append(sound_queue, <<door_active[s].open_sound, SectorEntity(s)>>)
                  /\ ceiling' = ceiling
          /\ (\/ Cardinality(OpenSounds(sound_queue')) > Cardinality(OpenSounds(sound_queue))
              \/ \E s \in DOMAIN door_active' :
                   /\ door_active'[s].state = "Opening"
                   /\ s \in DOMAIN door_active => door_active[s].state # "Opening")
             => /\ pc = "doors"
                /\ \E s \in DOMAIN door_active : DoorTick(s) /\ door_active[s].state = "Closed"
          /\ pc = "events" => ceiling' = ceiling
          /\ \A s \in Sectors :
               (\E i \in OpenSounds(sound_queue) : sound_queue[i][2] = SectorEntity(s))
               => ceiling'[s] = ceiling[s]]_vars

\* C23 witness: a switch has made doors of sectors 1 and 2 in this run, and
\* the join has made both Opening, their open sounds queued after the
\* switch's sound and their ceilings still on their floors.
C23_Witness ==
    /\ pc = "doors"
    /\ {1, 2} \subseteq DOMAIN door_active
    /\ cursor > 2
    /\ door_active[1].state = "Opening"
    /\ door_active[2].state = "Opening"
    /\ Len(sound_queue) = 3
    /\ sound_queue[2] = <<door_active[1].open_sound, SectorEntity(1)>>
    /\ sound_queue[3] = <<door_active[2].open_sound, SectorEntity(2)>>
    /\ ceiling[1] = floor[1]
    /\ ceiling[2] = floor[2]

\* C24: time_left is never negative.  A door that is Open keeps its ceiling;
\* when the join comes to it with time_left >= delta it only takes delta off
\* time_left and queues nothing, and with time_left < delta it only becomes
\* Closing and appends exactly the pair (close_sound, sector entity) to the
\* sound queue.
C24_OpenWaits ==
    /\ [](\A s \in DOMAIN door_active : door_active[s].time_left >= 0)
    /\ [][\A s \in DOMAIN door_active :
            door_active[s].state = "Open"
            => /\ ceiling'[s] = ceiling[s]
               /\ (DoorTick(s) /\ door_active[s].time_left >= FRAME_TIME)
                  => /\ door_active' =
                          [door_active EXCEPT ![s].time_left =
                                                 door_active[s].time_left - FRAME_TIME]
                     /\ sound_queue' = sound_queue
               /\ (DoorTick(s) /\ door_active[s].time_left < FRAME_TIME)
                  => /\ door_active' = [door_active EXCEPT ![s].state = "Closing"]
                     /\ sound_queue' =
                          Append(sound_queue, <<door_active[s].close_sound, SectorEntity(s)>>)]_vars

\* C24 witness: door 1 stood open at its open height, its timer went down by
\* one delta to less than a delta, and the join has just made it Closing.
C24_Witness ==
    /\ pc = "doors"
    /\ cursor > 1
    /\ 1 \in DOMAIN door_active
    /\ door_active[1].state = "Closing"
    /\ door_active[1].time_left = door_active[1].wait_time - FRAME_TIME
    /\ door_active[1].time_left > 0
    /\ door_active[1].time_left < FRAME_TIME
    /\ sound_queue = << <<door_active[1].close_sound, SectorEntity(1)>> >>
    /\ ceiling[1] = door_active[1].open_height

\* ------------------------------------------- claims on the physics tick

\* C25: the loop of a tick begins at most 4 iterations and every iteration
\* counts towards the 4, so the tick ends.  An iteration whose trace finds no
\* intersection is the last; an iteration whose trace finds one deflects the
\* velocity, and is the last with the velocity set to zero when the deflected
\* velocity's dot product with the velocity of the start of the tick is <= 0;
\* otherwise the loop goes on with the deflected velocity, which after the
\* 4th iteration is the velocity written back.
C25_BoundedIterations ==
    /\ [](/\ iterations \in 0..4
          /\ phys_pc = "loop" => iterations < 4)
    /\ [][/\ phys_pc = "loop"
             => /\ iterations' = iterations + 1
                /\ phys_pc' = "hit"
                /\ velocity' = velocity
                /\ new_velocity' = new_velocity
          /\ phys_pc = "hit"
             => /\ iterations' = iterations
                /\ velocity' = velocity
                /\ ~ intersect.some => phys_pc' = "write" /\ new_velocity' = new_velocity
                /\ intersect.some
                   => \A deflected \in {Projected(new_velocity, intersect.normal)} :
                        IF Sign(Dot(deflected, velocity)) <= 0
                        THEN phys_pc' = "write" /\ new_velocity' = ZeroVec
                        ELSE /\ new_velocity' = deflected
                             /\ phys_pc' = IF iterations = 4 THEN "write" ELSE "loop"
          /\ phys_pc = "write" => phys_pc' = "idle" /\ velocity' = new_velocity]_vars

\* C25 witness: the 4th iteration of a tick found an intersection as the
\* three before it had, and its deflected velocity is about to be written.
C25_Witness ==
    /\ phys_pc = "write"
    /\ iterations = 4
    /\ new_velocity # ZeroVec
    /\ new_velocity # velocity
    /\ new_position = position

\* The step of the loop's next iteration: new_velocity * time_left.
MoveStepNow == VecScale(new_velocity, Num(FRAME_TIME))

\* C26: a tick leaves the position and the velocity of an entity alone when
\* the entity lacks one of BoxCollider, Transform and Velocity or its
\* velocity is zero.  Inside the loop the position of the entity is still
\* the one it had at the start of the tick; an iteration whose trace finds an
\* intersection leaves new_position alone, and an iteration whose trace
\* finds none adds the velocity then in effect times dt and ends the loop.
\* The position written back is therefore the position of the start of the
\* tick or that position plus the velocity written back times dt.
C26_PositionWriteBack ==
    [][/\ (/\ phys_pc = "idle"
           /\ ticks' # ticks
           /\ \/ velocity = ZeroVec
              \/ \E c \in {"BoxCollider", "Transform", "Velocity"} : c \notin mover_components)
          => /\ position' = position
             /\ velocity' = velocity
             /\ phys_pc' = "idle"
       /\ phys_pc = "loop"
          => /\ position' = position
             /\ new_position' = new_position
             /\ new_position = position
       /\ phys_pc = "hit"
          => /\ position' = position
             /\ IF intersect.some
                THEN new_position' = new_position
                ELSE /\ new_position' = VecAdd(position, MoveStepNow)
                     /\ new_velocity' = new_velocity
                     /\ phys_pc' = "write"
       /\ phys_pc = "write"
          => /\ position' = new_position
             /\ velocity' = new_velocity
             /\ \/ position' = position
                \/ position' = VecAdd(position, VecScale(velocity', Num(FRAME_TIME)))]_vars

\* C26 witness: the first iteration of the tick found an intersection and
\* deflected the velocity, the second found none, and the step of the
\* deflected velocity is about to be written back.
C26_Witness ==
    /\ phys_pc = "write"
    /\ iterations = 2
    /\ new_velocity # velocity
    /\ new_position # position
    /\ new_position = VecAdd(position, MoveStepNow)

\* ---------------------------------------------- claims on the tracer's masks

\* The step of the traced call has a horizontal part, so that the first
\* candidates are those of the linedefs, in the order of WallLinedefs.
HorizontalStep == sweep_step[1] # Zero \/ sweep_step[2] # Zero

\* The two-sided linedefs for which trace_linedef returned an intersection,
\* whatever its mask.
StruckTwoSided ==
    {k \in DOMAIN WallLinedefs :
       /\ sweep_pc = "done"
       /\ HorizontalStep
       /\ WallLinedefs[k].sidedefs[2] # NoSector
       /\ sweep_candidates[k].normal # NoHit.normal}

\* The vertical extent of the traced box at the time of impact with linedef
\* k lies inside the overlap of the current intervals of the linedef's front
\* and back sectors (all heights multiplied by the fraction's denominator).
FitsOpening(k) ==
    \A f \in {sweep_candidates[k].fraction},
       opening \in {SectorOpening(WallLinedefs[k].sidedefs[1], WallLinedefs[k].sidedefs[2])} :
        /\ Cmp(Add(Mul(SweepBox[3].min, f.den), Mul(sweep_step[3], f.num)),
               Mul(opening.min, f.den)) >= 0
        /\ Cmp(Add(Mul(SweepBox[3].max, f.den), Mul(sweep_step[3], f.num)),
               Mul(opening.max, f.den)) <= 0

\* C27 as claimed: the intersection with a two-sided linedef blocks the mover
\* only when the mover's vertical extent at the time of impact lies inside
\* the overlap of the two sectors' intervals.
C27_BlockingOnlyInsideOverlap ==
    \A k \in StruckTwoSided :
        MaskIntersects(NON_MONSTER, sweep_candidates[k].solid_mask) => FitsOpening(k)

\* C27, amended: the intersection with a two-sided linedef carries the
\* linedef's own solid mask when the mover's vertical extent at the time of
\* impact lies inside the overlap of the two sectors' intervals, and the mask
\* of all movers when it does not; it counts for the mover exactly when the
\* mask it carries intersects the mover's mask.
C27_MaskOfTwoSided ==
    \A k \in StruckTwoSided :
        /\ sweep_candidates[k].solid_mask =
             IF FitsOpening(k) THEN WallLinedefs[k].solid_mask ELSE SolidMaskAll
        /\ sweep_candidates[k].some =
             MaskIntersects(NON_MONSTER, sweep_candidates[k].solid_mask)
        /\ ~ FitsOpening(k) => sweep_candidates[k].some
        /\ ~ sweep_candidates[k].some => sweep_result # sweep_candidates[k]

\* C27 witness: the traced box, too low for the opening of the two-sided
\* line across x = 6 that it straddles, is blocked by that line, whose
\* intersection is the one returned.
C27_Witness ==
    /\ 6 \in StruckTwoSided
    /\ ~ FitsOpening(6)
    /\ sweep_candidates[6].solid_mask = SolidMaskAll
    /\ sweep_result.some
    /\ sweep_result = sweep_candidates[6]

\* The intersections trace_linedef, trace_sector and trace_aabb returned to
\* the traced call.
ReturnedIntersections == {c \in SeqRange(sweep_candidates) : c.normal # NoHit.normal}

\* Those of them whose solid mask has a bit in common with the mover's mask
\* and whose fraction is below 1.
Eligible ==
    {c \in ReturnedIntersections :
       /\ c.solid_mask \cap NON_MONSTER # {}
       /\ QuotLess(c.fraction, One)}

\* The intersections whose mask has no bit in common with the mover's mask.
Unmatched == {c \in ReturnedIntersections : c.solid_mask \cap NON_MONSTER = {}}

\* C28: when no intersection returned to trace has a matching mask and a
\* fraction below 1, trace returns None; otherwise it returns one of those
\* that have, and none of them has a smaller fraction.  An intersection whose
\* mask does not match is never returned, however near it is.
C28_NearestMatching ==
    sweep_pc = "done" =>
        /\ Eligible = {} => ~ sweep_result.some
        /\ Eligible # {} =>
             /\ sweep_result.some
             /\ sweep_result \in Eligible
             /\ \A c \in Eligible : ~ QuotLess(c.fraction, sweep_result.fraction)
        /\ sweep_result \notin Unmatched

\* C28 witness: the traced box touches a second entity whose mask does not
\* match and moves towards it and upwards; the ceiling, half a step away, is
\* what trace returned, the nearer intersection with the entity being passed
\* over.
C28_Witness ==
    /\ sweep_pc = "done"
    /\ sweep_result.some
    /\ QuotLess(QuotZero, sweep_result.fraction)
    /\ \E c \in Unmatched : QuotLess(c.fraction, sweep_result.fraction)

\* --------------------------------------------- claims on the entity loop

\* What trace_aabb returned for the i-th joined entity.
EntityCandidate(i) == sweep_candidates[Len(sweep_candidates) - Len(sweep_colliders) + i]

\* The bounding box of the i-th joined entity at its Transform's position.
JoinedBox(i) ==
    BoxOffset(FromRadiusHeight(sweep_colliders[i].box_collider.radius,
                               sweep_colliders[i].box_collider.height),
              sweep_colliders[i].position)

\* The joined entities other than the traced one, which is the first.
OtherEntities == DOMAIN sweep_colliders \ {1}

\* C29 as stated: the traced entity's own collider is never reported, and the
\* collider of every other joined entity goes through the slab test, one whose
\* box is identical to the traced box included.
C29_EveryOtherTested ==
    sweep_pc = "done" =>
        /\ 1 \notin slab_tested
        /\ EntityCandidate(1) = NoHit
        /\ \A i \in OtherEntities : i \in slab_tested

\* C29: the traced entity's own collider is never reported; a joined entity
\* goes through the slab test exactly when its box differs from the traced
\* box, so that a second entity with the same position, radius and height is
\* passed over like the traced entity itself, and nothing is reported for it.
C29_SkippedByBounds ==
    sweep_pc = "done" =>
        /\ 1 \notin slab_tested
        /\ EntityCandidate(1) = NoHit
        /\ \A i \in DOMAIN sweep_colliders :
             /\ i \in slab_tested <=> JoinedBox(i) # SweepBox
             /\ i \notin slab_tested => EntityCandidate(i) = NoHit

\* C29 witness: a second entity stands where the traced one stands, with the
\* same radius and height, and the traced entity moves; the second entity's
\* collider did not reach the slab test.
C29_Witness ==
    /\ sweep_pc = "done"
    /\ sweep_step # ZeroVec
    /\ Len(sweep_colliders) = 2
    /\ sweep_colliders[2].position = sweep_position
    /\ sweep_colliders[2].box_collider.radius = MoverCollider.radius
    /\ sweep_colliders[2].box_collider.height = MoverCollider.height
    /\ 2 \notin slab_tested

\* ------------------------------------- claims on what a door run leaves alone

\* The sectors whose ceiling the step under way changes.
CeilingsChanged == {s \in Sectors : ceiling'[s] # ceiling[s]}

\* C30: no step of a run changes a floor or a light level, and a ceiling
\* changes only in the iteration of the door loop that visits the sector's
\* own DoorActive, and only when that DoorActive is in state Opening or
\* Closing; the loop then moves on, so that the sector is visited once a run.
\* The ceilings of sectors without a DoorActive, or with one in state Closed
\* or Open, are therefore the same after the run as before it.
C30_OnlyMovingDoorsChange ==
    [][/\ floor' = floor
       /\ light' = light
       /\ \A s \in CeilingsChanged :
            /\ pc = "doors"
            /\ s \in DOMAIN door_active
            /\ s = NextDoor
            /\ door_active[s].state \in {"Opening", "Closing"}
            /\ cursor' > s
            /\ CeilingsChanged = {s}]_vars

\* C30 witness: a door is on its way up, its sector's ceiling no longer where
\* the map has it, while a second door that was just created is still Closed
\* with its ceiling, and every floor and light level, as the map has them.
C30_Witness ==
    /\ \E s \in DOMAIN door_active :
         /\ door_active[s].state = "Opening"
         /\ ceiling[s] # MapSectors[s].max
    /\ \E s \in DOMAIN door_active :
         /\ door_active[s].state = "Closed"
         /\ ceiling[s] = MapSectors[s].max
    /\ \A s \in Sectors :
         /\ floor[s] = MapSectors[s].min
         /\ light[s] = MapSectors[s].light_level
         /\ s \notin DOMAIN door_active => ceiling[s] = MapSectors[s].max

====
